---- MODULE Spec2Model ----
(***************************************************************************)
(* A model of the superglue Python SDK's typed request/response contract   *)
(* layer: the attrs model classes (to_dict / from_dict and the             *)
(* additional_properties bag), the enums, and the four endpoint modules    *)
(* (list_runs, run_tool, cancel_run, get_tool).                            *)
(*                                                                         *)
(* Values.  Python values and wire (JSON) values are tagged records:       *)
(*   [tag |-> "str", val |-> "abc"]     a str                              *)
(*   [tag |-> "num", val |-> 5]         an int                             *)
(*   [tag |-> "bool", val |-> TRUE]     a bool                             *)
(*   [tag |-> "null"]                   None / JSON null                   *)
(*   [tag |-> "list", val |-> <<..>>]   a list                             *)
(*   [tag |-> "obj", val |-> f]         a dict, f a function on its keys   *)
(*   [tag |-> "unset"]                  the UNSET singleton                *)
(*   [tag |-> "enum", cls, val]         a member of a str Enum             *)
(*   [tag |-> "dt", ...]                a datetime.datetime                *)
(*   [tag |-> "ent", cls, f, ap]        an instance of a model class: f    *)
(*                                      its declared fields by attribute   *)
(*                                      name, ap its additional_properties *)
(*   [tag |-> "raise", exc, at]         an exception leaving the call      *)
(***************************************************************************)
EXTENDS Integers, Sequences, FiniteSets, TLC

VARIABLES
    mode,    \* which part of the library this behaviour exercises
    pc,      \* the position within it
    cls,     \* codec: the model class in hand
    args,    \* codec: the keyword arguments the caller gave the constructor
    ent,     \* codec: the instance (its bag may have been assigned to since)
    wire,    \* codec: the wire object (from to_dict, or as received)
    dec,     \* codec: what from_dict returned or raised
    out,     \* codec: the wire object written from what from_dict returned
    call     \* endpoint: the call in progress

vars == <<mode, pc, cls, args, ent, wire, dec, out, call>>

----------------------------------------------------------------------------
(* Bounds of the model.                                                    *)

\* At most this many optional constructor arguments are supplied at once
\* (besides the fully populated instance, which supplies all of them).
MaxOpt == 1
\* The longest nested list (Tool.steps, Run.step_results, data).
MaxLen == 1
\* The longest path parameter, in characters.
MaxIdLen == 2

----------------------------------------------------------------------------
(* Values.                                                                 *)

S(s) == [tag |-> "str", val |-> s]
N(n) == [tag |-> "num", val |-> n]
B(b) == [tag |-> "bool", val |-> b]
None == [tag |-> "null"]
Lst(q) == [tag |-> "list", val |-> q]
Obj(f) == [tag |-> "obj", val |-> f]
UNSET == [tag |-> "unset"]
Member(c, v) == [tag |-> "enum", cls |-> c, val |-> v]
Entity(c, f, ap) == [tag |-> "ent", cls |-> c, f |-> f, ap |-> ap]
Raise(exc, at) == [tag |-> "raise", exc |-> exc, at |-> at]
\* No value yet.
Nothing == [tag |-> "nothing"]

EmptyMap == [k \in {} |-> None]
IsRaise(v) == v.tag = "raise"
IsUnset(v) == v.tag = "unset"

\* The keys of m other than those in ks, with their values.
Without(m, ks) == [k \in DOMAIN m \ ks |-> m[k]]

----------------------------------------------------------------------------
(* The enums: each a closed set of literals (class X(str, Enum)).          *)

RunStatus == {"aborted", "failed", "running", "success"}
ListRunsStatus == {"aborted", "failed", "running", "success"}
PaginationType == {"cursorBased", "disabled", "offsetBased", "pageBased"}
ToolStepMethod == {"DELETE", "GET", "HEAD", "OPTIONS", "PATCH", "POST", "PUT"}
ToolStepFailureBehavior == {"continue", "fail"}

EnumClasses ==
    {"RunStatus", "ListRunsStatus", "PaginationType", "ToolStepMethod",
     "ToolStepFailureBehavior"}

Literals(c) ==
    CASE c = "RunStatus" -> RunStatus
      [] c = "ListRunsStatus" -> ListRunsStatus
      [] c = "PaginationType" -> PaginationType
      [] c = "ToolStepMethod" -> ToolStepMethod
      [] c = "ToolStepFailureBehavior" -> ToolStepFailureBehavior

\* A mutant of EnumCall: a string that is no literal becomes a member.
EnumCall_lenient(c, v) ==
    IF v.tag = "str" THEN Member(c, v.val) ELSE Raise("ValueError", "enum")

\* X(value), as in RunStatus(d.pop("status")): the member whose value is
\* `value`, and ValueError for anything that is not the value of a member.
EnumCall(c, v) ==
    IF v.tag = "str" /\ v.val \in Literals(c)
    THEN Member(c, v.val)
    ELSE Raise("ValueError", "enum")

\* member.value, as in self.status.value.
EnumValue(m) == S(m.val)

----------------------------------------------------------------------------
(* Timestamps.  A datetime is [wall, us, aware, off]: wall names the date  *)
(* and time of day (an index into DateTexts), us the microseconds, aware   *)
(* whether it has a tzinfo and off its UTC offset in seconds.              *)
(* datetime.isoformat() writes the text; dateutil's isoparse reads it.     *)

DateTime(wall, us, aware, off) ==
    [tag |-> "dt", wall |-> wall, us |-> us, aware |-> aware, off |-> off]

DateTexts == <<"2024-01-01T00:00:00", "2024-06-30T12:34:56">>

\* isoformat writes the microseconds as six digits, and only when nonzero.
FracText(us) == IF us = 0 THEN "" ELSE IF us = 123 THEN ".000123" ELSE ".123000"

\* isoformat writes the offset as +HH:MM, and as +HH:MM:SS when it has seconds.
OffsetText(off) ==
    CASE off = 0 -> "+00:00"
      [] off = 19800 -> "+05:30"
      [] off = -28800 -> "-08:00"
      [] off = 19815 -> "+05:30:15"

isoformat(d) ==
    DateTexts[d.wall] \o FracText(d.us) \o (IF d.aware THEN OffsetText(d.off) ELSE "")

\* The fractions and offsets isoparse reads: a fraction of 1 to 6 digits; an
\* offset Z, +HH, +HHMM or +HH:MM (any other length is refused).
FracTexts == [t \in {"", ".000123", ".123000", ".123"} |->
                 IF t = "" THEN 0 ELSE IF t = ".000123" THEN 123 ELSE 123000]
TzTexts == [t \in {"", "Z", "+00:00", "+05:30", "+0530", "-08:00", "-08"} |->
               CASE t = "" -> [aware |-> FALSE, off |-> 0]
                 [] t \in {"Z", "+00:00"} -> [aware |-> TRUE, off |-> 0]
                 [] t \in {"+05:30", "+0530"} -> [aware |-> TRUE, off |-> 19800]
                 [] t \in {"-08:00", "-08"} -> [aware |-> TRUE, off |-> -28800]]

IsoReadings(s) ==
    {r \in (DOMAIN DateTexts) \X (DOMAIN FracTexts) \X (DOMAIN TzTexts) :
        s = DateTexts[r[1]] \o r[2] \o r[3]}

\* A mutant of isoparse: the offset is not read.
isoparse_naive(v) ==
    IF v.tag \in {"null", "num", "bool"} THEN Raise("TypeError", "isoparse")
    ELSE IF v.tag # "str" \/ IsoReadings(v.val) = {} THEN Raise("ValueError", "isoparse")
    ELSE LET r == CHOOSE r \in IsoReadings(v.val) : TRUE
         IN DateTime(r[1], FracTexts[r[2]], FALSE, 0)

\* isoparse(value): the datetime the text is the ISO-8601 form of; TypeError
\* for what has no length (None, a number, a boolean) and ValueError for
\* anything else that is not such a text (the empty list and the empty dict
\* are "too short").
isoparse(v) ==
    IF v.tag \in {"null", "num", "bool"} THEN Raise("TypeError", "isoparse")
    ELSE IF v.tag # "str" \/ IsoReadings(v.val) = {} THEN Raise("ValueError", "isoparse")
    ELSE LET r == CHOOSE r \in IsoReadings(v.val) : TRUE
         IN DateTime(r[1], FracTexts[r[2]], TzTexts[r[3]].aware, TzTexts[r[3]].off)

----------------------------------------------------------------------------
(* The model classes.  Each is the table of its declared fields, in the    *)
(* order from_dict pops them: the attribute name, the wire key, whether    *)
(* the field is required, its kind ("scalar": passed through as is;        *)
(* "enum", "entity", "list" (of entities), "datetime": converted), the     *)
(* class converted to, and the constructor's default.                      *)

Req(py, w, kind, c) ==
    [py |-> py, wire |-> w, req |-> TRUE, kind |-> kind, cls |-> c, default |-> UNSET]
Opt(py, w, kind, c) ==
    [py |-> py, wire |-> w, req |-> FALSE, kind |-> kind, cls |-> c, default |-> UNSET]
OptDefault(py, w, kind, c, dflt) ==
    [py |-> py, wire |-> w, req |-> FALSE, kind |-> kind, cls |-> c, default |-> dflt]

ToolStep_fields ==
    << Req("id", "id", "scalar", ""),
       Req("url", "url", "scalar", ""),
       Req("method", "method", "enum", "ToolStepMethod"),
       Req("system_id", "systemId", "scalar", ""),
       Opt("query_params", "queryParams", "entity", "ToolStepQueryParams"),
       Opt("headers", "headers", "entity", "ToolStepHeaders"),
       Opt("body", "body", "scalar", ""),
       Opt("pagination", "pagination", "entity", "Pagination"),
       Opt("instruction", "instruction", "scalar", ""),
       OptDefault("modify", "modify", "scalar", "", B(FALSE)),
       Opt("data_selector", "dataSelector", "scalar", ""),
       OptDefault("failure_behavior", "failureBehavior", "enum",
                  "ToolStepFailureBehavior", Member("ToolStepFailureBehavior", "fail")) >>

Run_fields ==
    << Req("run_id", "runId", "scalar", ""),
       Req("tool_id", "toolId", "scalar", ""),
       Req("status", "status", "enum", "RunStatus"),
       Req("metadata", "metadata", "entity", "RunMetadata"),
       Opt("tool", "tool", "entity", "RunTool"),
       Opt("tool_payload", "toolPayload", "entity", "RunToolPayload"),
       Opt("data", "data", "entity", "RunData"),
       Opt("error", "error", "scalar", ""),
       Opt("step_results", "stepResults", "list", "RunStepResultsItem"),
       Opt("options", "options", "entity", "RunOptions"),
       Opt("request_source", "requestSource", "scalar", ""),
       Opt("trace_id", "traceId", "scalar", "") >>

Tool_fields ==
    << Req("id", "id", "scalar", ""),
       Req("steps", "steps", "list", "ToolStep"),
       Opt("name", "name", "scalar", ""),
       Opt("version", "version", "scalar", ""),
       Opt("instruction", "instruction", "scalar", ""),
       Opt("input_schema", "inputSchema", "entity", "ToolInputSchema"),
       Opt("output_schema", "outputSchema", "entity", "ToolOutputSchema"),
       Opt("output_transform", "outputTransform", "scalar", ""),
       Opt("created_at", "createdAt", "datetime", ""),
       Opt("updated_at", "updatedAt", "datetime", "") >>

Pagination_fields ==
    << Req("type_", "type", "enum", "PaginationType"),
       Opt("page_size", "pageSize", "scalar", ""),
       Opt("cursor_path", "cursorPath", "scalar", ""),
       Opt("stop_condition", "stopCondition", "scalar", "") >>

RunMetadata_fields ==
    << Opt("started_at", "startedAt", "datetime", ""),
       Opt("completed_at", "completedAt", "datetime", ""),
       Opt("duration_ms", "durationMs", "scalar", "") >>

RunRequestOptions_fields ==
    << OptDefault("async_", "async", "scalar", "", B(FALSE)),
       Opt("timeout", "timeout", "scalar", ""),
       Opt("webhook_url", "webhookUrl", "scalar", ""),
       Opt("trace_id", "traceId", "scalar", "") >>

RunRequest_fields ==
    << Opt("run_id", "runId", "scalar", ""),
       Opt("inputs", "inputs", "entity", "RunRequestInputs"),
       Opt("credentials", "credentials", "entity", "RunRequestCredentials"),
       Opt("options", "options", "entity", "RunRequestOptions") >>

ListRunsResponse200_fields ==
    << Opt("data", "data", "list", "Run"),
       Opt("page", "page", "scalar", ""),
       Opt("limit", "limit", "scalar", ""),
       Opt("total", "total", "scalar", ""),
       Opt("has_more", "hasMore", "scalar", "") >>

\* The error payload, {error: {...}}: one optional nested object.
Error_fields == << Opt("error", "error", "entity", "ErrorError") >>

\* The classes that declare no field of their own: everything they carry is
\* in the additional_properties bag.
OpenBag_fields == << >>

OpenBagClasses ==
    {"ToolStepQueryParams", "ToolStepHeaders", "ToolInputSchema", "ToolOutputSchema",
     "RunTool", "RunToolPayload", "RunData", "RunStepResultsItem", "RunOptions",
     "RunRequestInputs", "RunRequestCredentials", "ErrorError"}

\* The entity types of the data model.
EntityTypes ==
    {"Tool", "ToolStep", "Pagination", "Run", "RunMetadata", "RunRequest",
     "RunRequestOptions", "ListRunsResponse200"}

Fields(c) ==
    CASE c = "ToolStep" -> ToolStep_fields
      [] c = "Run" -> Run_fields
      [] c = "Tool" -> Tool_fields
      [] c = "Pagination" -> Pagination_fields
      [] c = "RunMetadata" -> RunMetadata_fields
      [] c = "RunRequestOptions" -> RunRequestOptions_fields
      [] c = "RunRequest" -> RunRequest_fields
      [] c = "ListRunsResponse200" -> ListRunsResponse200_fields
      [] c = "Error" -> Error_fields
      [] c \in OpenBagClasses -> OpenBag_fields

FieldSet(c) == {Fields(c)[i] : i \in DOMAIN Fields(c)}
WireNames(c) == {fd.wire : fd \in FieldSet(c)}
RequiredFields(c) == {fd \in FieldSet(c) : fd.req}
OptionalFields(c) == {fd \in FieldSet(c) : ~fd.req}
FieldOfWire(c, w) == CHOOSE fd \in FieldSet(c) : fd.wire = w
FieldOfAttr(c, a) == CHOOSE fd \in FieldSet(c) : fd.py = a

----------------------------------------------------------------------------
(* Construction, to_dict and from_dict.                                    *)

Min(xs) == CHOOSE x \in xs : \A y \in xs : x <= y

RECURSIVE SeqOf(_)
SeqOf(xs) ==
    IF xs = {} THEN << >>
    ELSE LET x == CHOOSE x \in xs : TRUE IN <<x>> \o SeqOf(xs \ {x})

\* cls(**kw): the attrs-generated __init__.  An argument not given takes the
\* field's default; additional_properties (init=False, factory=dict) starts
\* empty.
New(c, kw) ==
    Entity(c,
           [a \in {fd.py : fd \in FieldSet(c)} |->
               IF a \in DOMAIN kw THEN kw[a] ELSE FieldOfAttr(c, a).default],
           EmptyMap)

\* A mutant of Emitted: an optional scalar is written even when it is UNSET.
Emitted_unset_scalars(fd, v) == fd.req \/ ~IsUnset(v) \/ fd.kind = "scalar"

\* Whether to_dict writes the field: a required field always (the first
\* field_dict.update), an optional one "if x is not UNSET".
Emitted(fd, v) == fd.req \/ ~IsUnset(v)

\* A mutant of field_dict: the bag is written over the declared fields.
field_dict_bag_last(bag, declared) == bag @@ declared

\* field_dict.update(self.additional_properties), then the declared fields
\* over it: on a key both hold, the declared field's value stays.
field_dict(bag, declared) == declared @@ bag

RECURSIVE to_dict(_)

\* The wire value of one declared field, per kind: self.x, self.x.value,
\* self.x.to_dict(), [item.to_dict() for item in self.x], self.x.isoformat().
EncodeField(fd, v) ==
    CASE fd.kind = "scalar" -> v
      [] fd.kind = "enum" -> EnumValue(v)
      [] fd.kind = "entity" -> to_dict(v)
      [] fd.kind = "list" -> Lst([i \in DOMAIN v.val |-> to_dict(v.val[i])])
      [] fd.kind = "datetime" -> S(isoformat(v))

to_dict(e) ==
    LET written == {fd \in FieldSet(e.cls) : Emitted(fd, e.f[fd.py])}
        declared == [w \in {fd.wire : fd \in written} |->
                        LET fd == FieldOfWire(e.cls, w) IN EncodeField(fd, e.f[fd.py])]
    IN Obj(field_dict(e.ap, declared))

\* dict(src_dict), as a dict value or what it raises: a copy of a mapping;
\* of an iterable, the dict of its key/value pairs (so the empty list and the empty string give {}); a
\* TypeError for what cannot be iterated and a ValueError for an element that
\* is no pair.  (A non-empty string yields one-character elements.  The wire
\* values of this model hold no list whose elements are two-character strings
\* or two-key objects, which dict() would also read as pairs.)
dict(v) ==
    CASE v.tag = "obj" -> v
      [] v.tag = "str" -> IF v.val = "" THEN Obj(EmptyMap) ELSE Raise("ValueError", "dict")
      [] v.tag = "list" ->
            LET q == v.val
                pair(x) == x.tag = "list" /\ Len(x.val) = 2 /\ x.val[1].tag = "str"
                bad == {i \in DOMAIN q : ~pair(q[i])}
            IN IF bad = {}
               THEN Obj([k \in {q[i].val[1].val : i \in DOMAIN q} |->
                        LET last == CHOOSE i \in DOMAIN q :
                                /\ q[i].val[1].val = k
                                /\ \A j \in DOMAIN q : q[j].val[1].val = k => j <= i
                        IN q[last].val[2]])
               ELSE IF q[Min(bad)].tag \in {"num", "bool", "null"}
                    THEN Raise("TypeError", "dict")
                    ELSE Raise("ValueError", "dict")
      [] OTHER -> Raise("TypeError", "dict")

\* A mutant of iter: the elements of a list come last first.
iter_reversed(v) ==
    CASE v.tag = "list" -> Lst([i \in DOMAIN v.val |-> v.val[Len(v.val) + 1 - i]])
      [] v.tag = "str" -> Lst([i \in 1..Len(v.val) |-> S("c")])
      [] v.tag = "obj" -> LET ks == SeqOf(DOMAIN v.val) IN Lst([i \in DOMAIN ks |-> S(ks[i])])
      [] OTHER -> Raise("TypeError", "iter")

\* "for item in x": the elements of a list, the characters of a string, the
\* keys of a dict; TypeError for what cannot be iterated.
iter(v) ==
    CASE v.tag = "list" -> v
      [] v.tag = "str" -> Lst([i \in 1..Len(v.val) |-> S("c")])
      [] v.tag = "obj" -> LET ks == SeqOf(DOMAIN v.val) IN Lst([i \in DOMAIN ks |-> S(ks[i])])
      [] OTHER -> Raise("TypeError", "iter")

RECURSIVE from_dict(_, _)

\* A mutant of Missing: an optional field whose key is absent takes the
\* constructor's default.
Missing_default(fd) == IF fd.req THEN Raise("KeyError", fd.wire) ELSE fd.default

\* The key is not in the copy: d.pop(key) raises KeyError for a required
\* field, d.pop(key, UNSET) gives UNSET for an optional one.
Missing(fd) == IF fd.req THEN Raise("KeyError", fd.wire) ELSE UNSET

\* One declared field out of the copy d: d.pop(key) (KeyError when a required
\* key is absent), d.pop(key, UNSET) for an optional one, then the conversion
\* of the kind; whatever the conversion raises leaves from_dict.
DecodeField(fd, d) ==
    IF fd.wire \notin DOMAIN d
    THEN Missing(fd)
    ELSE LET raw == d[fd.wire]
         IN CASE fd.kind = "scalar" -> raw
              [] fd.kind = "enum" -> EnumCall(fd.cls, raw)
              [] fd.kind = "entity" -> from_dict(fd.cls, raw)
              [] fd.kind = "datetime" -> isoparse(raw)
              [] fd.kind = "list" ->
                    LET items == iter(raw)
                    IN IF IsRaise(items) THEN items
                       ELSE LET r == [i \in DOMAIN items.val |->
                                         from_dict(fd.cls, items.val[i])]
                                bad == {i \in DOMAIN r : IsRaise(r[i])}
                            IN IF bad = {} THEN Lst(r) ELSE r[Min(bad)]

\* A mutant of additional_properties_of: the popped keys stay in the bag.
additional_properties_all(c, d) == d

\* A mutant of additional_properties_of: what is left of the copy is dropped.
additional_properties_none(c, d) == EmptyMap

\* What is left of the copy d once every declared key has been popped.
additional_properties_of(c, d) == Without(d, WireNames(c))

from_dict(c, src_dict) ==
    LET copy == dict(src_dict)
    IN IF IsRaise(copy) THEN copy
       ELSE LET d == copy.val
                fs == Fields(c)
                r == [i \in DOMAIN fs |-> DecodeField(fs[i], d)]
                bad == {i \in DOMAIN fs : IsRaise(r[i])}
            IN IF bad # {} THEN r[Min(bad)]
               ELSE Entity(c,
                           [a \in {fs[i].py : i \in DOMAIN fs} |->
                               r[CHOOSE i \in DOMAIN fs : fs[i].py = a]],
                           additional_properties_of(c, d))

----------------------------------------------------------------------------
(* The values the model draws its inputs from.                             *)

\* A value of the declared type of a scalar field.
ScalarSample(fd) ==
    IF fd.py \in {"duration_ms", "timeout", "page", "limit", "total"} THEN N(7)
    ELSE IF fd.py \in {"has_more", "modify", "async_"} THEN B(TRUE)
    ELSE S("v")

\* Naive, UTC, offset with microseconds, negative offset, and an offset that
\* is not a whole number of minutes.
DateTimes ==
    { DateTime(1, 0, FALSE, 0), DateTime(2, 0, TRUE, 0), DateTime(1, 123, TRUE, 19800),
      DateTime(2, 0, TRUE, -28800), DateTime(1, 0, TRUE, 19815) }

RECURSIVE Populated(_, _)

\* The value a minimally (full = FALSE) or fully populated instance holds in
\* a field.
Canonical(fd, full) ==
    CASE fd.kind = "scalar" -> ScalarSample(fd)
      [] fd.kind = "enum" -> Member(fd.cls, CHOOSE l \in Literals(fd.cls) : TRUE)
      [] fd.kind = "entity" -> Populated(fd.cls, full)
      [] fd.kind = "list" ->
            Lst(IF full THEN [i \in 1..MaxLen |-> Populated(fd.cls, TRUE)] ELSE << >>)
      [] fd.kind = "datetime" -> DateTime(1, 123, TRUE, 19800)

FullArgs(c) == [a \in {fd.py : fd \in FieldSet(c)} |-> Canonical(FieldOfAttr(c, a), TRUE)]
MinArgs(c) == [a \in {fd.py : fd \in RequiredFields(c)} |-> Canonical(FieldOfAttr(c, a), FALSE)]

\* The instance of class c with only its required fields given, or with
\* every field given and one undeclared key in its bag.
Populated(c, full) ==
    IF full
    THEN [New(c, FullArgs(c)) EXCEPT !.ap = [k \in {"x-extra"} |-> S("kept")]]
    ELSE New(c, MinArgs(c))

\* All lists of at most n elements drawn from xs.
RECURSIVE ListsUpTo(_, _)
ListsUpTo(xs, n) ==
    IF n = 0 THEN {<< >>}
    ELSE LET shorter == ListsUpTo(xs, n - 1)
         IN shorter \cup {Append(q, x) : q \in {p \in shorter : Len(p) = n - 1}, x \in xs}

\* A list of two different instances.
TwoItems(c) == Lst(<<Populated(c, FALSE), Populated(c, TRUE)>>)

\* The values a caller may give for a field.
FieldSamples(fd) ==
    (IF IsUnset(fd.default) THEN {} ELSE {UNSET}) \cup
    CASE fd.kind = "scalar" -> {ScalarSample(fd)}
      [] fd.kind = "enum" -> {Member(fd.cls, l) : l \in Literals(fd.cls)}
      [] fd.kind = "entity" -> {Populated(fd.cls, FALSE), Populated(fd.cls, TRUE)}
      [] fd.kind = "list" ->
            {Lst(q) : q \in ListsUpTo({Populated(fd.cls, FALSE), Populated(fd.cls, TRUE)}, MaxLen)}
              \cup {TwoItems(fd.cls)}
      [] fd.kind = "datetime" -> DateTimes

\* Every choice of a sample for each of the attributes in as.
RECURSIVE ArgsOver(_, _)
ArgsOver(c, as) ==
    IF as = {} THEN {EmptyMap}
    ELSE LET a == CHOOSE a \in as : TRUE
         IN {(a :> v) @@ r : v \in FieldSamples(FieldOfAttr(c, a)), r \in ArgsOver(c, as \ {a})}

\* The keyword arguments of the constructor calls the model makes: the
\* required fields with at most MaxOpt optional ones, and all of them.
Kwargs(c) ==
    LET req == {fd.py : fd \in RequiredFields(c)}
        opt == {fd.py : fd \in OptionalFields(c)}
    IN {FullArgs(c)} \cup
       UNION {ArgsOver(c, req \cup O) : O \in {O \in SUBSET opt : Cardinality(O) <= MaxOpt}}

\* The keys the model assigns in a bag: one undeclared, and of the declared
\* wire names the first required one, the first optional one whose default is
\* UNSET and the first optional one with another default.
FirstWire(c, P(_)) ==
    LET fs == Fields(c)
        is == {i \in DOMAIN fs : P(fs[i])}
    IN IF is = {} THEN {} ELSE {fs[Min(is)].wire}
BagKeys(c) ==
    {"x-extra"}
      \cup FirstWire(c, LAMBDA fd : fd.req)
      \cup FirstWire(c, LAMBDA fd : ~fd.req /\ IsUnset(fd.default))
      \cup FirstWire(c, LAMBDA fd : ~fd.req /\ ~IsUnset(fd.default))

\* What a server (or anything else) may put in place of a wire value.
BadValues == {None, N(5), B(TRUE), S(""), S("zzz"), Lst(<< >>), Obj(EmptyMap)}

\* The wire objects handed to from_dict: those to_dict writes for the
\* minimal and the full instance, and each of them with one key removed or
\* one value replaced; and values that are no object at all.
WellFormed(c) == {to_dict(Populated(c, FALSE)), to_dict(Populated(c, TRUE))}
Altered(w) ==
    {Obj(Without(w.val, {k})) : k \in DOMAIN w.val}
      \cup {Obj((k :> v) @@ w.val) : k \in DOMAIN w.val, v \in BadValues}
\* Timestamps as a server may write them: UTC as Z, offsets without colon
\* and of hours only, a fraction of three digits; and texts that are no
\* ISO-8601 timestamp.
IsoTexts ==
    {"2024-06-30T12:34:56Z", "2024-01-01T00:00:00.123+0530", "2024-06-30T12:34:56-08",
     "2024-01-01T00:00:00+05:30:15", "2024-13-45T00:00:00", "yesterday"}
Retimed(c, w) ==
    {Obj((fd.wire :> S(t)) @@ w.val) : fd \in {f \in FieldSet(c) : f.kind = "datetime"},
                                        t \in IsoTexts}
\* A list field with two different elements, and with none.
Relisted(c, w) ==
    UNION {{Obj((fd.wire :> l) @@ w.val) : l \in {Lst(<< >>), EncodeField(fd, TwoItems(fd.cls))}} :
              fd \in {f \in FieldSet(c) : f.kind = "list"}}
ServerWires(c) ==
    WellFormed(c)
      \cup UNION {Altered(w) \cup Retimed(c, w) \cup Relisted(c, w) : w \in WellFormed(c)}
      \cup (BadValues \ {Obj(EmptyMap)})

\* The strings handed to an enum class: every literal of every enum, and
\* values that are no literal of any.
EnumInputs ==
    {S(l) : l \in UNION {Literals(c) : c \in EnumClasses}}
      \cup {S("get"), S("Running"), S(""), S("bogus"), None, N(1)}

----------------------------------------------------------------------------
(* The model classes in use: an instance is constructed, its bag assigned  *)
(* to and deleted from, written with to_dict and read back with from_dict  *)
(* (mode "roundtrip"); a wire object arrives and is read with from_dict    *)
(* and written again (mode "receive"); a string is looked up in an enum    *)
(* and the member's value written (mode "enum").                           *)

NoCall == [op |-> "none"]

InitRoundTrip ==
    /\ mode = "roundtrip"
    /\ pc = "built"
    /\ cls \in EntityTypes
    /\ args \in Kwargs(cls)
    /\ ent = New(cls, args)
    /\ wire = Nothing
    /\ dec = Nothing
    /\ out = Nothing
    /\ call = NoCall

InitReceive ==
    /\ mode = "receive"
    /\ pc = "received"
    /\ cls \in EntityTypes
    /\ args = EmptyMap
    /\ ent = Nothing
    /\ wire \in ServerWires(cls)
    /\ dec = Nothing
    /\ out = Nothing
    /\ call = NoCall

InitEnum ==
    /\ mode = "enum"
    /\ pc = "received"
    /\ cls \in EnumClasses
    /\ args = EmptyMap
    /\ ent = Nothing
    /\ wire \in EnumInputs
    /\ dec = Nothing
    /\ out = Nothing
    /\ call = NoCall

\* A mutant of setitem: a key the bag already holds keeps its value.
setitem_setdefault(e, k, v) == [e EXCEPT !.ap = e.ap @@ (k :> v)]

\* entity[key] = value
setitem(e, k, v) == [e EXCEPT !.ap = (k :> v) @@ e.ap]
\* del entity[key]
delitem(e, k) == [e EXCEPT !.ap = Without(e.ap, {k})]

\* The value the model assigns in a bag.
BagValues == {S("bag")}

SetItem ==
    /\ mode = "roundtrip" /\ pc = "built"
    /\ \E k \in BagKeys(cls), v \in BagValues : ent' = setitem(ent, k, v)
    /\ UNCHANGED <<mode, pc, cls, args, wire, dec, out, call>>

DelItem ==
    /\ mode = "roundtrip" /\ pc = "built"
    /\ \E k \in DOMAIN ent.ap : ent' = delitem(ent, k)
    /\ UNCHANGED <<mode, pc, cls, args, wire, dec, out, call>>

ToDict ==
    /\ mode = "roundtrip" /\ pc = "built"
    /\ wire' = to_dict(ent)
    /\ pc' = "encoded"
    /\ UNCHANGED <<mode, cls, args, ent, dec, out, call>>

FromDict ==
    /\ mode \in {"roundtrip", "receive"} /\ pc \in {"encoded", "received"}
    /\ dec' = from_dict(cls, wire)
    /\ pc' = "decoded"
    /\ UNCHANGED <<mode, cls, args, ent, wire, out, call>>

ToDictAgain ==
    /\ mode = "receive" /\ pc = "decoded"
    /\ ~IsRaise(dec)
    /\ out' = to_dict(dec)
    /\ pc' = "reencoded"
    /\ UNCHANGED <<mode, cls, args, ent, wire, dec, call>>

EnumDecode ==
    /\ mode = "enum" /\ pc = "received"
    /\ dec' = EnumCall(cls, wire)
    /\ pc' = "decoded"
    /\ UNCHANGED <<mode, cls, args, ent, wire, out, call>>

EnumEncode ==
    /\ mode = "enum" /\ pc = "decoded"
    /\ ~IsRaise(dec)
    /\ out' = EnumValue(dec)
    /\ pc' = "reencoded"
    /\ UNCHANGED <<mode, cls, args, ent, wire, dec, call>>

Init == InitRoundTrip \/ InitReceive \/ InitEnum

Next ==
    \/ SetItem
    \/ DelItem
    \/ ToDict
    \/ FromDict
    \/ ToDictAgain
    \/ EnumDecode
    \/ EnumEncode

Spec == Init /\ [][Next]_vars

----------------------------------------------------------------------------
(* The endpoint modules: _get_kwargs, _parse_response, _build_response and *)
(* the four variants of each operation.                                    *)

Operations == {"list_runs", "run_tool", "cancel_run", "get_tool"}
Variants == {"sync_detailed", "sync", "asyncio_detailed", "asyncio"}

\* Text as a sequence of characters, where the characters matter.
Slash == "/"
PathRuns == <<"/", "r", "u", "n", "s">>
PathTools == <<"/", "t", "o", "o", "l", "s">>
SegRun == <<"/", "r", "u", "n">>
SegCancel == <<"/", "c", "a", "n", "c", "e", "l">>

\* The characters urllib.parse.quote never escapes: letters, digits, "_.-~".
Unreserved == {"a", "b", "7", "_", ".", "-", "~"}

\* The escapes of the other characters of the model: %XX for each byte of
\* the character's UTF-8 encoding.
PercentEncoded ==
    [c \in {"/", "%", " ", "?", "e-acute"} |->
        CASE c = "/" -> <<"%", "2", "F">>
          [] c = "%" -> <<"%", "2", "5">>
          [] c = " " -> <<"%", "2", "0">>
          [] c = "?" -> <<"%", "3", "F">>
          [] c = "e-acute" -> <<"%", "C", "3", "%", "A", "9">>]

\* A mutant of quote: "/" is safe, as it is by default (quote(s)).
RECURSIVE quote_default_safe(_, _)
quote_default_safe(chars, safe) ==
    IF chars = << >> THEN << >>
    ELSE (IF Head(chars) \in Unreserved \cup safe \cup {"/"}
          THEN <<Head(chars)>>
          ELSE PercentEncoded[Head(chars)]) \o quote_default_safe(Tail(chars), safe)

\* quote(string, safe=safe).
RECURSIVE quote(_, _)
quote(chars, safe) ==
    IF chars = << >> THEN << >>
    ELSE (IF Head(chars) \in Unreserved \cup safe
          THEN <<Head(chars)>>
          ELSE PercentEncoded[Head(chars)]) \o quote(Tail(chars), safe)

NoParams == Nothing
NoJson == Nothing

run_tool_get_kwargs(a) ==
    [tag |-> "kwargs", method |-> "post",
     url |-> PathTools \o <<Slash>> \o quote(a.tool_id, {}) \o SegRun,
     params |-> NoParams,
     json |-> to_dict(a.body),
     headers |-> [h \in {"Content-Type"} |-> "application/json"]]

cancel_run_get_kwargs(a) ==
    [tag |-> "kwargs", method |-> "post",
     url |-> PathRuns \o <<Slash>> \o quote(a.run_id, {}) \o SegCancel,
     params |-> NoParams,
     json |-> NoJson,
     headers |-> EmptyMap]

\* A mutant of get_tool_get_kwargs: the verb is POST.
get_tool_get_kwargs_post(a) ==
    [tag |-> "kwargs", method |-> "post",
     url |-> PathTools \o <<Slash>> \o quote(a.tool_id, {}),
     params |-> NoParams,
     json |-> NoJson,
     headers |-> EmptyMap]

get_tool_get_kwargs(a) ==
    [tag |-> "kwargs", method |-> "get",
     url |-> PathTools \o <<Slash>> \o quote(a.tool_id, {}),
     params |-> NoParams,
     json |-> NoJson,
     headers |-> EmptyMap]

\* The signature of list_runs._get_kwargs: every argument is keyword-only
\* and has a default.
list_runs_signature ==
    [tool_id |-> UNSET, status |-> UNSET, page |-> N(1), limit |-> N(50)]

\* The arguments as the function body sees them: what the caller passed, and
\* the default of each argument the caller did not pass.
list_runs_bound(kw) ==
    [k \in DOMAIN list_runs_signature |->
        IF k \in DOMAIN kw THEN kw[k] ELSE list_runs_signature[k]]

\* list_runs: every argument goes into params (status as status.value unless
\* it is Unset; None has no .value), then the UNSET and None ones are dropped.
list_runs_get_kwargs(kw) ==
    LET a == list_runs_bound(kw)
    IN IF a.status.tag = "null" THEN Raise("AttributeError", "status.value")
       ELSE LET json_status == IF IsUnset(a.status) THEN UNSET ELSE EnumValue(a.status)
                params == [k \in {"toolId", "status", "page", "limit"} |->
                              CASE k = "toolId" -> a.tool_id
                                [] k = "status" -> json_status
                                [] k = "page" -> a.page
                                [] k = "limit" -> a.limit]
                kept == {k \in DOMAIN params : ~IsUnset(params[k]) /\ params[k].tag # "null"}
            IN [tag |-> "kwargs", method |-> "get",
                url |-> PathRuns,
                params |-> Obj([k \in kept |-> params[k]]),
                json |-> NoJson,
                headers |-> EmptyMap]

get_kwargs(op, a) ==
    CASE op = "run_tool" -> run_tool_get_kwargs(a)
      [] op = "cancel_run" -> cancel_run_get_kwargs(a)
      [] op = "get_tool" -> get_tool_get_kwargs(a)
      [] op = "list_runs" -> list_runs_get_kwargs(a)

\* response.json(): the value the content is the JSON text of, or the
\* JSONDecodeError of content that is no JSON text.
NotJson == [tag |-> "garbage"]
json(response) ==
    IF response.content = NotJson THEN Raise("JSONDecodeError", "json") ELSE response.content

\* X.from_dict(response.json())
decoded(c, response) ==
    LET j == json(response) IN IF IsRaise(j) THEN j ELSE from_dict(c, j)

UnexpectedStatus(response) ==
    [tag |-> "raise", exc |-> "UnexpectedStatus", at |-> "parse_response",
     status_code |-> response.status_code, content |-> response.content]

\* The end of every _parse_response: no branch took the status code.
unexpected(client, response) ==
    IF client.raise_on_unexpected_status THEN UnexpectedStatus(response) ELSE None

\* A mutant of run_tool_parse_response: 202 is not among the branches.
run_tool_parse_response_no_202(client, response) ==
    IF response.status_code = 200 THEN decoded("Run", response)
    ELSE IF response.status_code \in {400, 409, 410, 429} THEN decoded("Error", response)
    ELSE unexpected(client, response)

run_tool_parse_response(client, response) ==
    IF response.status_code = 200 THEN decoded("Run", response)
    ELSE IF response.status_code = 202 THEN decoded("Run", response)
    ELSE IF response.status_code = 400 THEN decoded("Error", response)
    ELSE IF response.status_code = 409 THEN decoded("Error", response)
    ELSE IF response.status_code = 410 THEN decoded("Error", response)
    ELSE IF response.status_code = 429 THEN decoded("Error", response)
    ELSE unexpected(client, response)

\* A mutant of cancel_run_parse_response: 404 is read as an Error too.
cancel_run_parse_response_404(client, response) ==
    IF response.status_code = 200 THEN decoded("Run", response)
    ELSE IF response.status_code \in {400, 404} THEN decoded("Error", response)
    ELSE unexpected(client, response)

\* A mutant of cancel_run_parse_response: 400 is not among the branches.
cancel_run_parse_response_no_400(client, response) ==
    IF response.status_code = 200 THEN decoded("Run", response)
    ELSE unexpected(client, response)

cancel_run_parse_response(client, response) ==
    IF response.status_code = 200 THEN decoded("Run", response)
    ELSE IF response.status_code = 400 THEN decoded("Error", response)
    ELSE unexpected(client, response)

get_tool_parse_response(client, response) ==
    IF response.status_code = 200 THEN decoded("Tool", response)
    ELSE IF response.status_code = 404 THEN decoded("Error", response)
    ELSE unexpected(client, response)

\* A mutant of list_runs_parse_response: 400 is read as an Error.
list_runs_parse_response_400(client, response) ==
    IF response.status_code = 200 THEN decoded("ListRunsResponse200", response)
    ELSE IF response.status_code = 400 THEN decoded("Error", response)
    ELSE unexpected(client, response)

\* A mutant of list_runs_parse_response: a body that does not decode is
\* treated as an unexpected status.
list_runs_parse_response_masked(client, response) ==
    IF response.status_code = 200 /\ ~IsRaise(decoded("ListRunsResponse200", response))
    THEN decoded("ListRunsResponse200", response)
    ELSE unexpected(client, response)

list_runs_parse_response(client, response) ==
    IF response.status_code = 200 THEN decoded("ListRunsResponse200", response)
    ELSE unexpected(client, response)

parse_response(op, client, response) ==
    CASE op = "run_tool" -> run_tool_parse_response(client, response)
      [] op = "cancel_run" -> cancel_run_parse_response(client, response)
      [] op = "get_tool" -> get_tool_parse_response(client, response)
      [] op = "list_runs" -> list_runs_parse_response(client, response)

\* The codes http.HTTPStatus has a member for.
HTTPStatusCodes ==
    (100..103) \cup (200..208) \cup {226} \cup (300..308) \cup (400..418)
      \cup (421..426) \cup {428, 429, 431, 451} \cup (500..508) \cup {510, 511}

\* HTTPStatus(code): the member, or ValueError.
HTTPStatus(code) ==
    IF code \in HTTPStatusCodes THEN N(code) ELSE Raise("ValueError", "HTTPStatus")

\* A mutant of build_response: the Response is built without the headers of
\* the response.
build_response_no_headers(op, client, response) ==
    LET status == HTTPStatus(response.status_code)
        parsed == parse_response(op, client, response)
    IN IF IsRaise(status) THEN status
       ELSE IF IsRaise(parsed) THEN parsed
       ELSE [tag |-> "response", status_code |-> response.status_code,
             content |-> response.content, headers |-> EmptyMap,
             parsed |-> parsed]

\* _build_response: Response(status_code=HTTPStatus(...), content=...,
\* headers=..., parsed=_parse_response(...)), its arguments evaluated in that
\* order, so that what HTTPStatus raises comes before what _parse_response
\* returns or raises.
build_response(op, client, response) ==
    LET status == HTTPStatus(response.status_code)
        parsed == parse_response(op, client, response)
    IN IF IsRaise(status) THEN status
       ELSE IF IsRaise(parsed) THEN parsed
       ELSE [tag |-> "response", status_code |-> response.status_code,
             content |-> response.content, headers |-> response.headers,
             parsed |-> parsed]

\* A mutant of returned: asyncio returns the whole Response.
returned_asyncio_detailed(variant, built) ==
    IF IsRaise(built) \/ variant \in {"sync_detailed", "asyncio_detailed", "asyncio"}
    THEN built
    ELSE built.parsed

\* What the variant returns from what _build_response returned or raised:
\* sync and asyncio return the Response's .parsed.
returned(variant, built) ==
    IF IsRaise(built) \/ variant \in {"sync_detailed", "asyncio_detailed"}
    THEN built
    ELSE built.parsed

----------------------------------------------------------------------------
(* The endpoint functions in use: _get_kwargs called on its arguments      *)
(* (mode "request"); _parse_response called on a response (mode "parse");  *)
(* and a whole call of one of the four variants (mode "call"): the request *)
(* descriptor is built, the transport is asked once and answers with a     *)
(* response or raises, and _build_response maps the response.              *)

\* The characters of the path parameters of the model.
IdAlphabet == {"a", ".", "/", "%", "e-acute"}
Ids == ListsUpTo(IdAlphabet, MaxIdLen)

\* The keyword arguments list_runs is called with: each argument passed or
\* not, and passed as a value of its type, as UNSET or as None.
ListRunsSamples ==
    [tool_id |-> {UNSET, None, S("t1")},
     status |-> {UNSET, None} \cup {Member("ListRunsStatus", l) : l \in ListRunsStatus},
     page |-> {UNSET, None, N(1), N(2)},
     limit |-> {UNSET, N(50), N(10)}]
RECURSIVE KwargsOver(_, _)
KwargsOver(samples, names) ==
    IF names = {} THEN {EmptyMap}
    ELSE LET n == CHOOSE n \in names : TRUE
             rest == KwargsOver(samples, names \ {n})
         IN rest \cup {(n :> v) @@ r : v \in samples[n], r \in rest}
ListRunsKwargs == KwargsOver(ListRunsSamples, DOMAIN ListRunsSamples)

RequestArgs(op) ==
    CASE op = "run_tool" ->
            {[tool_id |-> i, body |-> b] :
                i \in Ids, b \in {Populated("RunRequest", FALSE), Populated("RunRequest", TRUE)}}
      [] op = "cancel_run" -> {[run_id |-> i] : i \in Ids}
      [] op = "get_tool" -> {[tool_id |-> i] : i \in Ids}
      [] op = "list_runs" -> ListRunsKwargs

\* The arguments of the whole calls.
CallIds == {<<"a">>, <<"a", "/", "a">>}
CallArgs(op) ==
    CASE op = "run_tool" -> {[tool_id |-> i, body |-> Populated("RunRequest", TRUE)] : i \in CallIds}
      [] op = "cancel_run" -> {[run_id |-> i] : i \in CallIds}
      [] op = "get_tool" -> {[tool_id |-> i] : i \in CallIds}
      [] op = "list_runs" -> {EmptyMap, "status" :> Member("ListRunsStatus", "running")}

\* The responses of the model: status codes each operation declares, codes
\* none declares, and codes http.HTTPStatus has no member for; bodies that
\* are a Run, a Tool, a page of runs, an Error, an empty object, and no JSON.
StatusCodes == {200, 202, 400, 404, 409, 410, 429, 500, 299, 600}
ErrorBody == to_dict(Populated("Error", TRUE))
\* Bodies with a fault below the top: a page whose second run lacks "runId"
\* or has a status that is no literal, and a tool whose second step has a
\* method that is no literal.
Replaced(w, k, v) == Obj((k :> v) @@ w.val)
BrokenRuns ==
    LET run == to_dict(Populated("Run", FALSE))
    IN {Obj(Without(run.val, {"runId"})), Replaced(run, "status", S("bogus"))}
BrokenBodies ==
    LET run == to_dict(Populated("Run", FALSE))
        step == to_dict(Populated("ToolStep", FALSE))
    IN {Replaced(to_dict(Populated("ListRunsResponse200", FALSE)), "data", Lst(<<run, b>>)) :
            b \in BrokenRuns}
         \cup {Replaced(to_dict(Populated("Tool", FALSE)), "steps",
                        Lst(<<step, Replaced(step, "method", S("bogus"))>>))}
Contents ==
    { to_dict(Populated("Run", FALSE)), to_dict(Populated("Tool", FALSE)),
      to_dict(Populated("ListRunsResponse200", TRUE)), ErrorBody, Obj(EmptyMap), NotJson }
      \cup BrokenBodies
Responses ==
    {[status_code |-> c, content |-> b, headers |-> [h \in {"content-type"} |-> "application/json"]] :
        c \in StatusCodes, b \in Contents}

\* What the transport raises in place of a response.
TransportErrors ==
    {Raise("ConnectError", "transport"), Raise("ReadTimeout", "transport")}

Clients == {[raise_on_unexpected_status |-> b] : b \in BOOLEAN}

NewCall(op, a, client, variant) ==
    [op |-> op, a |-> a, client |-> client, variant |-> variant, kwargs |-> Nothing,
     sent |-> 0, response |-> Nothing, raised |-> Nothing, parsed |-> Nothing,
     result |-> Nothing]

InitOps(m, start) ==
    /\ mode = m
    /\ pc = start
    /\ cls = "" /\ args = EmptyMap /\ ent = Nothing /\ wire = Nothing
    /\ dec = Nothing /\ out = Nothing

InitRequest ==
    /\ InitOps("request", "start")
    /\ \E op \in Operations : \E a \in RequestArgs(op) :
          call = NewCall(op, a, [raise_on_unexpected_status |-> FALSE], "sync_detailed")

InitParse ==
    /\ InitOps("parse", "responded")
    /\ \E op \in Operations, client \in Clients, r \in Responses :
          call = [NewCall(op, EmptyMap, client, "sync_detailed") EXCEPT !.response = r]

InitCall ==
    /\ InitOps("call", "start")
    /\ \E op \in Operations, client \in Clients, variant \in Variants :
          \E a \in CallArgs(op) : call = NewCall(op, a, client, variant)

Frame == UNCHANGED <<mode, cls, args, ent, wire, dec, out>>

\* A mutant of GetKwargs: run_tool's descriptor is built by taking the
\* undeclared keys out of the body passed in.
GetKwargs_consuming ==
    /\ mode \in {"request", "call"} /\ pc = "start"
    /\ LET kw == get_kwargs(call.op, call.a)
           a == IF call.op = "run_tool" THEN [call.a EXCEPT !.body.ap = EmptyMap] ELSE call.a
       IN IF IsRaise(kw)
          THEN call' = [call EXCEPT !.result = kw] /\ pc' = "done"
          ELSE call' = [call EXCEPT !.kwargs = kw, !.a = a] /\ pc' = "built"
    /\ Frame

\* kwargs = _get_kwargs(...); what it raises leaves the call.
GetKwargs ==
    /\ mode \in {"request", "call"} /\ pc = "start"
    /\ LET kw == get_kwargs(call.op, call.a)
       IN IF IsRaise(kw)
          THEN call' = [call EXCEPT !.result = kw] /\ pc' = "done"
          ELSE call' = [call EXCEPT !.kwargs = kw] /\ pc' = "built"
    /\ Frame

\* _get_kwargs called once more with the arguments of the first call; out
\* is what the second call returned or raised.
GetKwargsAgain ==
    /\ mode = "request" /\ pc \in {"built", "done"}
    /\ out' = get_kwargs(call.op, call.a)
    /\ pc' = "rebuilt"
    /\ UNCHANGED <<mode, cls, args, ent, wire, dec, call>>

\* client.get_httpx_client().request(**kwargs), or the await of the async
\* client's: the one request of the call.
Request ==
    /\ mode = "call" /\ pc = "built"
    /\ call' = [call EXCEPT !.sent = @ + 1]
    /\ pc' = "waiting"
    /\ Frame

\* The transport returns a response.
Respond ==
    /\ mode = "call" /\ pc = "waiting"
    /\ \E r \in Responses : call' = [call EXCEPT !.response = r]
    /\ pc' = "responded"
    /\ Frame

\* A mutant of TransportError: the exception is caught and the call returns
\* None.
TransportError_swallowed ==
    /\ mode = "call" /\ pc = "waiting"
    /\ \E exc \in TransportErrors :
          call' = [call EXCEPT !.raised = exc, !.result = None]
    /\ pc' = "done"
    /\ Frame

\* The transport raises (connectivity, timeout) in place of returning: the
\* request is in no try block, so what was raised leaves the call.
TransportError ==
    /\ mode = "call" /\ pc = "waiting"
    /\ \E exc \in TransportErrors :
          call' = [call EXCEPT !.raised = exc, !.result = exc]
    /\ pc' = "done"
    /\ Frame

\* _parse_response(client=client, response=response), called by itself.
ParseResponse ==
    /\ mode = "parse" /\ pc = "responded"
    /\ call' = [call EXCEPT !.parsed = parse_response(call.op, call.client, call.response)]
    /\ pc' = "done"
    /\ Frame

\* A mutant of BuildResponse: a call answered 500 goes back to send the
\* request again.
BuildResponse_retry ==
    /\ mode = "call" /\ pc = "responded"
    /\ IF call.response.status_code = 500 /\ call.sent < 2
       THEN call' = [call EXCEPT !.response = Nothing] /\ pc' = "built"
       ELSE /\ call' = [call EXCEPT
                  !.parsed = IF IsRaise(HTTPStatus(call.response.status_code)) THEN Nothing
                             ELSE parse_response(call.op, call.client, call.response),
                  !.result = returned(call.variant,
                                      build_response(call.op, call.client, call.response))]
            /\ pc' = "done"
    /\ Frame

\* return _build_response(client=client, response=response), and .parsed of
\* it in sync and asyncio.  parsed records what _parse_response gave, when
\* it ran.
BuildResponse ==
    /\ mode = "call" /\ pc = "responded"
    /\ call' = [call EXCEPT
          !.parsed = IF IsRaise(HTTPStatus(call.response.status_code)) THEN Nothing
                     ELSE parse_response(call.op, call.client, call.response),
          !.result = returned(call.variant, build_response(call.op, call.client, call.response))]
    /\ pc' = "done"
    /\ Frame

Init_Ops == InitRequest \/ InitParse \/ InitCall

Next_Ops ==
    \/ GetKwargs
    \/ GetKwargsAgain
    \/ Request
    \/ Respond
    \/ TransportError
    \/ ParseResponse
    \/ BuildResponse

SpecOps == Init_Ops /\ [][Next_Ops]_vars

----------------------------------------------------------------------------
(* Several calls at once on one client (mode "concurrent"): blocking calls *)
(* on threads of their own and non-blocking calls suspended at their       *)
(* await, their steps interleaved in any order.  call.client is the one    *)
(* client, call.calls the frames of the calls (the arguments and local     *)
(* variables of each), call.served what the transport answered each        *)
(* call's request with; pc is the position of each call.                   *)

\* The number of calls in flight together.
NumCalls == 2

CallIndex == 1..NumCalls

\* The calls made together: of one operation and of different ones, blocking
\* and non-blocking.
ConcurrentCalls ==
    { [op |-> "list_runs", a |-> EmptyMap, variant |-> "sync"],
      [op |-> "get_tool", a |-> [tool_id |-> <<"a">>], variant |-> "asyncio_detailed"],
      [op |-> "get_tool", a |-> [tool_id |-> <<"a">>], variant |-> "sync_detailed"],
      [op |-> "cancel_run", a |-> [run_id |-> <<"a">>], variant |-> "asyncio"] }

ConcurrentResponses ==
    {r \in Responses :
        \/ r.status_code = 200 /\ r.content = to_dict(Populated("Run", FALSE))
        \/ r.status_code = 404 /\ r.content = ErrorBody
        \/ r.status_code = 500 /\ r.content = NotJson}

\* The frame of a call: its arguments and its local variables.
NewFrame(c) ==
    [op |-> c.op, a |-> c.a, variant |-> c.variant, kwargs |-> Nothing, sent |-> 0,
     response |-> Nothing, raised |-> Nothing, parsed |-> Nothing, result |-> Nothing]

InitConcurrent ==
    /\ InitOps("concurrent", [i \in CallIndex |-> "start"])
    /\ \E client \in Clients, cs \in [CallIndex -> ConcurrentCalls] :
          call = [client |-> client,
                  calls |-> [i \in CallIndex |-> NewFrame(cs[i])],
                  served |-> [i \in CallIndex |-> Nothing]]

\* A mutant of assigned: the call takes the response another call already
\* holds, when there is one.
assigned_cached(frames, i, r) ==
    LET held == {j \in DOMAIN frames : j # i /\ frames[j].response # Nothing}
    IN [frames EXCEPT ![i].response =
           IF held = {} THEN r ELSE frames[CHOOSE j \in held : TRUE].response]

\* response = client.get_httpx_client().request(**kwargs): the response is a
\* local variable of the call.
assigned(frames, i, r) == [frames EXCEPT ![i].response = r]

ConcurrentGetKwargs(i) ==
    /\ mode = "concurrent" /\ pc[i] = "start"
    /\ call' = [call EXCEPT
          !.calls[i].kwargs = get_kwargs(call.calls[i].op, call.calls[i].a)]
    /\ pc' = [pc EXCEPT ![i] = "built"]
    /\ Frame

ConcurrentRequest(i) ==
    /\ mode = "concurrent" /\ pc[i] = "built"
    /\ call' = [call EXCEPT !.calls[i].sent = @ + 1]
    /\ pc' = [pc EXCEPT ![i] = "waiting"]
    /\ Frame

ConcurrentRespond(i) ==
    /\ mode = "concurrent" /\ pc[i] = "waiting"
    /\ \E r \in ConcurrentResponses :
          call' = [call EXCEPT !.calls = assigned(call.calls, i, r), !.served[i] = r]
    /\ pc' = [pc EXCEPT ![i] = "responded"]
    /\ Frame

ConcurrentTransportError(i) ==
    /\ mode = "concurrent" /\ pc[i] = "waiting"
    /\ \E exc \in {Raise("ReadTimeout", "transport")} :
          call' = [call EXCEPT !.calls[i].raised = exc, !.calls[i].result = exc,
                               !.served[i] = exc]
    /\ pc' = [pc EXCEPT ![i] = "done"]
    /\ Frame

ConcurrentBuildResponse(i) ==
    /\ mode = "concurrent" /\ pc[i] = "responded"
    /\ LET c == call.calls[i]
       IN call' = [call EXCEPT
             !.calls[i].parsed =
                 IF IsRaise(HTTPStatus(c.response.status_code)) THEN Nothing
                 ELSE parse_response(c.op, call.client, c.response),
             !.calls[i].result =
                 returned(c.variant, build_response(c.op, call.client, c.response))]
    /\ pc' = [pc EXCEPT ![i] = "done"]
    /\ Frame

Next_Concurrent ==
    \E i \in CallIndex :
        \/ ConcurrentGetKwargs(i)
        \/ ConcurrentRequest(i)
        \/ ConcurrentRespond(i)
        \/ ConcurrentTransportError(i)
        \/ ConcurrentBuildResponse(i)

SpecConcurrent == InitConcurrent /\ [][Next_Concurrent]_vars

----------------------------------------------------------------------------
(* An instance in the caller's hands (mode "bag"): constructed or decoded, *)
(* then used through what its class offers: entity[key] = value,           *)
(* del entity[key], entity[key], key in entity, entity.additional_keys,    *)
(* entity.to_dict(), and, the classes being attrs classes that are not     *)
(* frozen, entity.attr = value.  call.initial is the bag the instance      *)
(* started with, call.log the item assignments and deletions made since,   *)
(* call.last the operation just made and out what it returned or raised.   *)

\* The number of item assignments and deletions followed.
MaxOps == 3

BagClasses == {"Pagination", "RunMetadata", "Run"}

\* The keys used: one undeclared, and the wire name of the first optional
\* field of the class.
ItemKeys(c) == {"x-extra"} \cup FirstWire(c, LAMBDA fd : ~fd.req /\ IsUnset(fd.default))
ItemValues == {S("bag"), N(2)}

\* The attribute assigned to: the first optional scalar field of the class.
AssignedAttr(c) ==
    LET fs == Fields(c)
    IN fs[Min({i \in DOMAIN fs : ~fs[i].req /\ fs[i].kind = "scalar"})]

Op(m, k, v) == [m |-> m, k |-> k, v |-> v]
KeySet(ks) == [tag |-> "keys", val |-> ks]

InitBag ==
    /\ mode = "bag"
    /\ pc = "ready"
    /\ cls \in BagClasses
    /\ \/ args = MinArgs(cls) /\ ent = New(cls, args)
       \/ args = EmptyMap /\ ent = from_dict(cls, to_dict(Populated(cls, TRUE)))
    /\ wire = Nothing
    /\ dec = Nothing
    /\ out = Nothing
    /\ call = [op |-> "bag", initial |-> ent.ap, log |-> << >>, last |-> Nothing]

\* entity[key]: self.additional_properties[key], a KeyError when absent.
getitem(e, k) == IF k \in DOMAIN e.ap THEN e.ap[k] ELSE Raise("KeyError", k)
\* key in entity
contains(e, k) == B(k \in DOMAIN e.ap)
\* entity.additional_keys: list(self.additional_properties.keys()), as the
\* set of its elements.
additional_keys(e) == KeySet(DOMAIN e.ap)
\* entity.attr = value
setattr(e, a, v) == [e EXCEPT !.f[a] = v]

BagFrame == UNCHANGED <<mode, pc, cls, args, wire, dec>>
Logged(op) == call' = [call EXCEPT !.log = Append(@, op), !.last = op]
Read(op) == call' = [call EXCEPT !.last = op]

BagSetItem ==
    /\ mode = "bag" /\ Len(call.log) < MaxOps
    /\ \E k \in ItemKeys(cls), v \in ItemValues :
          /\ ent' = setitem(ent, k, v)
          /\ out' = None
          /\ Logged(Op("setitem", k, v))
    /\ BagFrame

\* del self.additional_properties[key]: a KeyError when the key is absent.
BagDelItem ==
    /\ mode = "bag" /\ Len(call.log) < MaxOps
    /\ \E k \in ItemKeys(cls) :
          /\ IF k \in DOMAIN ent.ap
             THEN ent' = delitem(ent, k) /\ out' = None
             ELSE ent' = ent /\ out' = Raise("KeyError", k)
          /\ Logged(Op("delitem", k, Nothing))
    /\ BagFrame

BagGetItem ==
    /\ mode = "bag"
    /\ \E k \in ItemKeys(cls) : out' = getitem(ent, k) /\ Read(Op("getitem", k, Nothing))
    /\ UNCHANGED ent
    /\ BagFrame

BagContains ==
    /\ mode = "bag"
    /\ \E k \in ItemKeys(cls) : out' = contains(ent, k) /\ Read(Op("contains", k, Nothing))
    /\ UNCHANGED ent
    /\ BagFrame

BagAdditionalKeys ==
    /\ mode = "bag"
    /\ out' = additional_keys(ent)
    /\ Read(Op("additional_keys", "", Nothing))
    /\ UNCHANGED ent
    /\ BagFrame

BagToDict ==
    /\ mode = "bag"
    /\ out' = to_dict(ent)
    /\ Read(Op("to_dict", "", Nothing))
    /\ UNCHANGED ent
    /\ BagFrame

SetAttr ==
    /\ mode = "bag"
    /\ LET fd == AssignedAttr(cls)
       IN \E v \in {UNSET, ScalarSample(fd)} :
             /\ ent' = setattr(ent, fd.py, v)
             /\ out' = None
             /\ Read(Op("setattr", fd.py, v))
    /\ BagFrame

Next_Bag ==
    \/ BagSetItem
    \/ BagDelItem
    \/ BagGetItem
    \/ BagContains
    \/ BagAdditionalKeys
    \/ BagToDict
    \/ SetAttr

SpecBag == InitBag /\ [][Next_Bag]_vars

----------------------------------------------------------------------------
(* from_dict statement by statement (mode "decode"), with the dicts it      *)
(* works on held by reference: call.heap.src is the mapping the caller     *)
(* passed (wire keeps what it was when passed), call.heap.d the dict made   *)
(* by d = dict(src_dict); call.d names the dict the local d refers to,     *)
(* call.i the field popped next, call.r the values converted so far, and   *)
(* call.bag the dict the returned instance has as additional_properties.   *)
(* The caller then assigns and deletes items of the returned instance.     *)

InitDecode ==
    /\ mode = "decode"
    /\ pc = "called"
    /\ cls \in EntityTypes
    /\ args = EmptyMap
    /\ ent = Nothing
    /\ wire \in ServerWires(cls)
    /\ dec = Nothing
    /\ out = Nothing
    /\ call = [op |-> "from_dict", heap |-> [src |-> wire, d |-> Nothing],
               d |-> "none", i |-> 1, r |-> << >>, bag |-> "none"]

\* A mutant of copied: d = src_dict, without the copy, when a dict is passed.
copied_alias(heap) ==
    IF heap.src.tag = "obj"
    THEN [heap |-> heap, d |-> "src"]
    ELSE [heap |-> [heap EXCEPT !.d = dict(heap.src)], d |-> "d"]

\* d = dict(src_dict): a new dict with the items of the mapping passed.
copied(heap) == [heap |-> [heap EXCEPT !.d = dict(heap.src)], d |-> "d"]

\* d.pop(key) and d.pop(key, UNSET): the key leaves the dict, if there.
popped(m, k) == Obj(Without(m.val, {k}))

DecodeFrame == UNCHANGED <<mode, cls, args, ent, wire, out>>

Copy ==
    /\ mode = "decode" /\ pc = "called"
    /\ IF IsRaise(dict(call.heap.src))
       THEN dec' = dict(call.heap.src) /\ pc' = "raised" /\ UNCHANGED call
       ELSE /\ call' = [call EXCEPT !.heap = copied(call.heap).heap, !.d = copied(call.heap).d]
            /\ pc' = "popping"
            /\ UNCHANGED dec
    /\ DecodeFrame

\* The statements of one declared field: the pop, then the conversion of
\* what was popped; what either raises leaves from_dict.
Pop ==
    /\ mode = "decode" /\ pc = "popping" /\ call.i <= Len(Fields(cls))
    /\ LET fd == Fields(cls)[call.i]
           m == call.heap[call.d]
           v == DecodeField(fd, m.val)
       IN /\ call' = [call EXCEPT !.heap[call.d] = popped(m, fd.wire),
                                  !.i = @ + 1,
                                  !.r = IF IsRaise(v) THEN @ ELSE Append(@, v)]
          /\ IF IsRaise(v) THEN dec' = v /\ pc' = "raised" ELSE UNCHANGED <<dec, pc>>
    /\ DecodeFrame

\* x = cls(...); x.additional_properties = d; return x
Construct ==
    /\ mode = "decode" /\ pc = "popping" /\ call.i > Len(Fields(cls))
    /\ dec' = Entity(cls,
                     [a \in {fd.py : fd \in FieldSet(cls)} |->
                         call.r[CHOOSE i \in DOMAIN Fields(cls) : Fields(cls)[i].py = a]],
                     call.heap[call.d].val)
    /\ call' = [call EXCEPT !.bag = call.d]
    /\ pc' = "returned"
    /\ DecodeFrame

\* x[key] = value on the instance returned: an item of the dict it has as
\* additional_properties.
ReturnedSetItem ==
    /\ mode = "decode" /\ pc \in {"returned", "mutated"}
    /\ \E k \in BagKeys(cls), v \in BagValues :
          /\ dec' = setitem(dec, k, v)
          /\ call' = [call EXCEPT !.heap[call.bag] = Obj(setitem(dec, k, v).ap)]
    /\ pc' = "mutated"
    /\ DecodeFrame

\* del x[key] on the instance returned.
ReturnedDelItem ==
    /\ mode = "decode" /\ pc \in {"returned", "mutated"}
    /\ \E k \in DOMAIN dec.ap :
          /\ dec' = delitem(dec, k)
          /\ call' = [call EXCEPT !.heap[call.bag] = Obj(delitem(dec, k).ap)]
    /\ pc' = "mutated"
    /\ DecodeFrame

Next_Decode ==
    \/ Copy
    \/ Pop
    \/ Construct
    \/ ReturnedSetItem
    \/ ReturnedDelItem

SpecDecode == InitDecode /\ [][Next_Decode]_vars

\* The statements of from_dict, taken one by one, give what from_dict gives.
DecodeAgrees ==
    (mode = "decode" /\ pc \in {"returned", "raised"}) => dec = from_dict(cls, wire)

----------------------------------------------------------------------------
(* Properties of the model classes.                                        *)

\* Whether a bag of e, or of an entity nested in e, holds a key that is the
\* wire name of a declared field of its class.
RECURSIVE BagCollides(_)
BagCollides(e) ==
    \/ DOMAIN e.ap \cap WireNames(e.cls) # {}
    \/ \E fd \in FieldSet(e.cls) :
          LET v == e.f[fd.py]
          IN /\ ~IsUnset(v)
             /\ \/ fd.kind = "entity" /\ BagCollides(v)
                \/ fd.kind = "list" /\ \E i \in DOMAIN v.val : BagCollides(v.val[i])

\* Whether a timestamp of e, or of an entity nested in e, has a UTC offset
\* that is not a whole number of minutes.
RECURSIVE OddOffset(_)
OddOffset(e) ==
    \E fd \in FieldSet(e.cls) :
        LET v == e.f[fd.py]
        IN /\ ~IsUnset(v)
           /\ \/ fd.kind = "datetime" /\ v.aware /\ v.off % 60 # 0
              \/ fd.kind = "entity" /\ OddOffset(v)
              \/ fd.kind = "list" /\ \E i \in DOMAIN v.val : OddOffset(v.val[i])

RoundTripped == mode = "roundtrip" /\ pc = "decoded"

\* C1 as stated: from_dict(to_dict(x)) equals x, on every declared field and
\* on the bag, for every instance x, also when its bag holds a key that is the
\* wire name of a declared field.  (Stated here for the instances whose
\* timestamps have whole-minute offsets; C1_RoundTrip_AnyOffset is the rest.)
C1_RoundTrip_AnyBag == (RoundTripped /\ ~OddOffset(ent)) => dec = ent

\* The other instances of C1 as stated: a timestamp whose UTC offset has
\* seconds is written as +HH:MM:SS, which isoparse refuses.
C1_RoundTrip_AnyOffset == (RoundTripped /\ ~BagCollides(ent)) => dec = ent

\* C1, amended: from_dict(to_dict(x)) equals x for every instance x in which
\* no bag (its own or a nested entity's) holds the wire name of a declared
\* field of its class and every timestamp has a whole-minute UTC offset.
C1_RoundTrip == (RoundTripped /\ ~BagCollides(ent) /\ ~OddOffset(ent)) => dec = ent

\* A fully populated instance with an undeclared key in its bag went round.
C1_Witness ==
    /\ RoundTripped
    /\ ~BagCollides(ent) /\ ~OddOffset(ent)
    /\ args = FullArgs(cls)
    /\ "x-extra" \in DOMAIN ent.ap
    /\ dec = ent

Encoded == mode = "roundtrip" /\ pc = "encoded"
NotSupplied(fd) == ~fd.req /\ fd.py \notin DOMAIN args

\* C2 as stated: an optional field the caller did not give the constructor
\* has no key in to_dict's result, ToolStep.modify, ToolStep.failure_behavior
\* and RunRequestOptions.async_ included.
C2_Omission_AnyField ==
    Encoded => \A fd \in FieldSet(cls) : NotSupplied(fd) => fd.wire \notin DOMAIN wire.val

\* C2, amended: an optional field whose constructor default is UNSET (every
\* optional field but ToolStep.modify, ToolStep.failure_behavior and
\* RunRequestOptions.async_, which are written with their defaults False,
\* "fail" and False) and which the caller neither gave the constructor nor
\* assigned in the bag under its wire name has no key in to_dict's result.
C2_Omission ==
    Encoded =>
        \A fd \in FieldSet(cls) :
            (NotSupplied(fd) /\ IsUnset(fd.default) /\ fd.wire \notin DOMAIN ent.ap)
                => fd.wire \notin DOMAIN wire.val

\* A ToolStep built without body, with something else in its bag, was written
\* without the key "body" and with its default "modify".
C2_Witness ==
    /\ Encoded
    /\ cls = "ToolStep"
    /\ NotSupplied(FieldOfAttr(cls, "body")) /\ NotSupplied(FieldOfAttr(cls, "modify"))
    /\ DOMAIN ent.ap # {}
    /\ "body" \notin DOMAIN wire.val
    /\ "modify" \in DOMAIN wire.val

\* The error kinds of the specification, as the exceptions of the code: the
\* ValueError of an enum class is InvalidEnumValue, what isoparse raises is
\* InvalidTimestamp, and the KeyError of a missing key and the TypeError or
\* ValueError of dict() and of iteration are SchemaError.
ErrorKind(r) ==
    CASE r.exc = "UnexpectedStatus" -> "UnexpectedStatus"
      [] r.at = "enum" /\ r.exc = "ValueError" -> "InvalidEnumValue"
      [] r.at = "isoparse" -> "InvalidTimestamp"
      [] r.exc \in {"KeyError", "TypeError", "ValueError"} -> "SchemaError"
      [] OTHER -> "other"
Fails(v, kind) == IsRaise(v) /\ ErrorKind(v) = kind

IsLiteral(c, w) == w.tag = "str" /\ w.val \in Literals(c)
EnumFields(c) == {fd \in FieldSet(c) : fd.kind = "enum"}

\* C8: looking up a string that is no literal of the enum fails with
\* InvalidEnumValue, by itself and as a field of an entity being decoded; a
\* literal gives the member, whose value written back is the same string.
C8_EnumClosure ==
    /\ (mode = "enum" /\ pc \in {"decoded", "reencoded"}) =>
          IF IsLiteral(cls, wire)
          THEN dec = Member(cls, wire.val) /\ (pc = "reencoded" => out = wire)
          ELSE Fails(dec, "InvalidEnumValue")
    /\ (mode = "receive" /\ pc \in {"decoded", "reencoded"} /\ wire.tag = "obj") =>
          \A fd \in EnumFields(cls) :
              fd.wire \in DOMAIN wire.val =>
                  IF IsLiteral(fd.cls, wire.val[fd.wire])
                  THEN IsRaise(dec) \/
                          /\ dec.f[fd.py] = Member(fd.cls, wire.val[fd.wire].val)
                          /\ (pc = "reencoded" => out.val[fd.wire] = wire.val[fd.wire])
                  ELSE IsRaise(dec) /\
                          (RequiredFields(cls) \subseteq {g \in FieldSet(cls) : g.wire \in DOMAIN wire.val}
                              => Fails(dec, "InvalidEnumValue"))

\* A literal was decoded and written back, in every enum.
C8_Witness ==
    /\ mode = "enum" /\ pc = "reencoded"
    /\ cls = "ToolStepFailureBehavior" /\ wire = S("continue") /\ out = S("continue")

\* C9 as stated: from_dict fails with SchemaError when a required key is
\* absent, and when the wire value of a field typed as a nested entity (of
\* the data model's entity types) is not an object.
C9_SchemaError ==
    (mode = "receive" /\ pc = "decoded" /\ wire.tag = "obj") =>
        /\ (\E fd \in RequiredFields(cls) : fd.wire \notin DOMAIN wire.val)
              => Fails(dec, "SchemaError")
        /\ (\E fd \in FieldSet(cls) :
                /\ fd.kind = "entity" /\ fd.cls \in EntityTypes
                /\ fd.wire \in DOMAIN wire.val
                /\ wire.val[fd.wire].tag # "obj")
              => Fails(dec, "SchemaError")

\* The half of C9 the code keeps: an absent required key is a KeyError.
C9_RequiredKey ==
    (mode = "receive" /\ pc = "decoded" /\ wire.tag = "obj"
        /\ \E fd \in RequiredFields(cls) : fd.wire \notin DOMAIN wire.val)
    => (Fails(dec, "SchemaError") /\ dec.exc = "KeyError")

----------------------------------------------------------------------------
(* Properties of the endpoint functions.                                   *)

\* _parse_response has run on call.response and call.parsed is what it
\* returned or raised.
Mapped ==
    \/ mode = "parse" /\ pc = "done"
    \/ mode = "call" /\ pc = "done" /\ call.parsed # Nothing
\* A whole call has ended on a response of the transport.
Answered == mode = "call" /\ pc = "done" /\ call.response # Nothing

IsA(v, c) == v.tag = "ent" /\ v.cls = c
IsTyped(v) == v.tag = "ent"
\* v is the outcome for a status code no branch takes: UnexpectedStatus with
\* the code and the raw body when the client raises on it, None when not.
IsUnexpected(v) ==
    IF call.client.raise_on_unexpected_status
    THEN /\ IsRaise(v) /\ v.exc = "UnexpectedStatus"
         /\ v.status_code = call.response.status_code
         /\ v.content = call.response.content
    ELSE v = None
HasJson == call.response.content # NotJson

\* The status codes the specification declares for each operation, with the
\* type of the outcome.
Declared(op) ==
    CASE op = "list_runs" -> [c \in {200} |-> "ListRunsResponse200"]
      [] op = "run_tool" ->
            [c \in {200, 202, 400, 409, 410, 429} |-> IF c \in {200, 202} THEN "Run" ELSE "Error"]
      [] op = "cancel_run" -> [c \in {200, 400} |-> IF c = 200 THEN "Run" ELSE "Error"]
      [] op = "get_tool" -> [c \in {200, 404} |-> IF c = 200 THEN "Tool" ELSE "Error"]

\* C3: the response mapper of RunTool gives the Run decoded from the body for
\* 200 and for 202, the Error decoded from the body for 400, 409, 410 and
\* 429, and UnexpectedStatus (raised, or None when the client does not raise)
\* for every other code.
C3_RunToolDispatch ==
    (Mapped /\ call.op = "run_tool") =>
        LET code == call.response.status_code
            body == call.response.content
        IN /\ (code \in {200, 202} /\ HasJson) => call.parsed = from_dict("Run", body)
           /\ (code \in {400, 409, 410, 429} /\ HasJson) => call.parsed = from_dict("Error", body)
           /\ code \notin {200, 202, 400, 409, 410, 429} => IsUnexpected(call.parsed)

\* The mapper of RunTool gave a Run for a 202.
C3_Witness ==
    /\ mode = "parse" /\ pc = "done" /\ call.op = "run_tool"
    /\ call.response.status_code = 202
    /\ IsA(call.parsed, "Run")

\* The parsed part of what a call returned.
ParsedOf(r) == IF r.tag = "response" THEN r.parsed ELSE r

\* C4 as stated: a call answered with a status code outside the operation's
\* declared set, 299 and 600 included, raises UnexpectedStatus with the code
\* and the raw body when the client raises on unexpected statuses, and
\* returns a None parsed result without raising when it does not.
C4_UnexpectedStatus ==
    (Answered /\ call.response.status_code \notin DOMAIN Declared(call.op)) =>
        IF call.client.raise_on_unexpected_status
        THEN IsUnexpected(call.result)
        ELSE ~IsRaise(call.result) /\ ParsedOf(call.result) = None

\* C5: the mappers of CancelRun and GetTool choose the outcome by the status
\* code alone: CancelRun 200 a Run, 400 an Error; GetTool 200 a Tool, 404 an
\* Error; every other code, CancelRun 404 and GetTool 400 among them, is an
\* unexpected status, and nothing typed comes of it.
C5_CancelRunGetToolDispatch ==
    (Mapped /\ call.op \in {"cancel_run", "get_tool"}) =>
        LET code == call.response.status_code
            body == call.response.content
            outcome == IF call.op = "cancel_run"
                       THEN [c \in {200, 400} |-> IF c = 200 THEN "Run" ELSE "Error"]
                       ELSE [c \in {200, 404} |-> IF c = 200 THEN "Tool" ELSE "Error"]
        IN /\ (code \in DOMAIN outcome /\ HasJson) => call.parsed = from_dict(outcome[code], body)
           /\ code \notin DOMAIN outcome => IsUnexpected(call.parsed)
           /\ IsTyped(call.parsed) => (code \in DOMAIN outcome /\ call.parsed.cls = outcome[code])

\* The mapper of CancelRun raised UnexpectedStatus for a 404 with an Error
\* body.
C5_Witness ==
    /\ mode = "parse" /\ pc = "done" /\ call.op = "cancel_run"
    /\ call.response.status_code = 404 /\ call.response.content = ErrorBody
    /\ call.client.raise_on_unexpected_status
    /\ IsRaise(call.parsed) /\ call.parsed.exc = "UnexpectedStatus"

\* C6: the mapper of ListRuns gives the ListRunsResponse200 decoded from the
\* body for 200; every other code, 400, 404 and 429 among them, is an
\* unexpected status and is never decoded into an Error.
C6_ListRunsDispatch ==
    (Mapped /\ call.op = "list_runs") =>
        LET code == call.response.status_code
            body == call.response.content
        IN /\ (code = 200 /\ HasJson) => call.parsed = from_dict("ListRunsResponse200", body)
           /\ code # 200 => IsUnexpected(call.parsed)
           /\ ~IsA(call.parsed, "Error")
           /\ IsTyped(call.parsed) => code = 200

\* A ListRuns call answered 429 with an Error body returned None.
C6_Witness ==
    /\ Answered /\ call.op = "list_runs" /\ call.variant = "sync"
    /\ call.response.status_code = 429 /\ call.response.content = ErrorBody
    /\ ~call.client.raise_on_unexpected_status
    /\ call.result = None

WellFormedError(body) == body.tag = "obj" /\ ~IsRaise(from_dict("Error", body))
Declared4xx(op) == {c \in DOMAIN Declared(op) : Declared(op)[c] = "Error"}

\* C7: a call answered with a declared 4xx code of its operation (RunTool
\* 400, 409, 410, 429; CancelRun 400; GetTool 404) and a well-formed Error
\* body returns the Error and raises nothing, whether or not the client
\* raises on unexpected statuses.
C7_ErrorsAreValues ==
    (Answered /\ call.response.status_code \in Declared4xx(call.op)
        /\ WellFormedError(call.response.content))
    => /\ ~IsRaise(call.result)
       /\ ParsedOf(call.result) = from_dict("Error", call.response.content)
       /\ IsA(ParsedOf(call.result), "Error")

\* A CancelRun call of a client that raises on unexpected statuses, answered
\* 400 with an Error body, returned the Error.
C7_Witness ==
    /\ Answered /\ call.op = "cancel_run" /\ call.variant = "asyncio"
    /\ call.response.status_code = 400 /\ call.response.content = ErrorBody
    /\ call.client.raise_on_unexpected_status
    /\ IsA(call.result, "Error")

RECURSIVE Count(_, _)
Count(chars, ch) ==
    IF chars = << >> THEN 0
    ELSE (IF Head(chars) = ch THEN 1 ELSE 0) + Count(Tail(chars), ch)

\* The id argument of the operations that have one.
IdOf(c) == IF c.op = "cancel_run" THEN c.a.run_id ELSE c.a.tool_id
Built == mode \in {"request", "call"} /\ pc # "start" /\ call.kwargs # Nothing

\* C10: the path RunTool, GetTool and CancelRun build has exactly the "/" of
\* its template (3 for /tools/{id}/run and /runs/{id}/cancel, 2 for
\* /tools/{id}) whatever the id, and every character of the id that is not
\* unreserved is in the path as its percent escape.
C10_PathEncoding ==
    (Built /\ call.op \in {"run_tool", "get_tool", "cancel_run"}) =>
        LET url == call.kwargs.url
            id == IdOf(call)
        IN /\ Count(url, "/") = (IF call.op = "get_tool" THEN 2 ELSE 3)
           /\ \A ch \in DOMAIN PercentEncoded \ {"/", "%"} : Count(url, ch) = 0
           /\ Count(url, "%") =
                 Count(id, "/") + Count(id, "%") + 2 * Count(id, "e-acute")

\* The path of RunTool for an id with a "/" in it.
C10_Witness ==
    /\ Built /\ call.op = "run_tool"
    /\ Count(call.a.tool_id, "/") > 0
    /\ Count(call.kwargs.url, "/") = 3

\* _get_kwargs has returned the request descriptor of the call.
Described == mode = "request" /\ pc = "built"
\* The wire names of the query parameters of ListRuns.
QueryKey ==
    [tool_id |-> "toolId", status |-> "status", page |-> "page", limit |-> "limit"]

\* C11 as stated: ListRuns leaves out of params every query parameter whose
\* argument is UNSET or None, and only those; with neither tool_id nor
\* status the keys are page and limit (1 and 50 when not passed either); a
\* status is sent as its literal string and a tool_id as it is.
C11_QueryOmission ==
    (mode = "request" /\ pc # "start" /\ call.op = "list_runs") =>
        LET a == [k \in DOMAIN QueryKey |->
                     IF k \in DOMAIN call.a THEN call.a[k]
                     ELSE CASE k = "page" -> N(1) [] k = "limit" -> N(50) [] OTHER -> UNSET]
            given == {k \in DOMAIN a : a[k] \notin {UNSET, None}}
        IN /\ call.kwargs # Nothing
           /\ call.kwargs.params.tag = "obj"
           /\ DOMAIN call.kwargs.params.val = {QueryKey[k] : k \in given}
           /\ \A k \in given :
                 call.kwargs.params.val[QueryKey[k]] =
                     IF k = "status" THEN S(a[k].val) ELSE a[k]

\* Whether url is before \o x \o after for some x, and is before \o id \o
\* after when every character of id is unreserved.
HasPath(url, before, id, after) ==
    /\ Len(url) >= Len(before) + Len(after)
    /\ SubSeq(url, 1, Len(before)) = before
    /\ SubSeq(url, Len(url) - Len(after) + 1, Len(url)) = after
    /\ (\A i \in DOMAIN id : id[i] \in Unreserved) => url = before \o id \o after

\* C12: ListRuns is GET /runs, RunTool POST /tools/{tool_id}/run, CancelRun
\* POST /runs/{run_id}/cancel, GetTool GET /tools/{tool_id}; RunTool alone
\* has a JSON body, body.to_dict(), and the header Content-Type:
\* application/json; ListRuns alone has query parameters.
C12_VerbAndPath ==
    (Described \/ (mode = "call" /\ call.kwargs # Nothing)) =>
        LET k == call.kwargs
        IN /\ k.method = (IF call.op \in {"list_runs", "get_tool"} THEN "get" ELSE "post")
           /\ CASE call.op = "list_runs" -> k.url = <<"/", "r", "u", "n", "s">>
                [] call.op = "run_tool" ->
                      HasPath(k.url, <<"/", "t", "o", "o", "l", "s", "/">>,
                              call.a.tool_id, <<"/", "r", "u", "n">>)
                [] call.op = "cancel_run" ->
                      HasPath(k.url, <<"/", "r", "u", "n", "s", "/">>,
                              call.a.run_id, <<"/", "c", "a", "n", "c", "e", "l">>)
                [] call.op = "get_tool" ->
                      HasPath(k.url, <<"/", "t", "o", "o", "l", "s", "/">>,
                              call.a.tool_id, << >>)
           /\ IF call.op = "run_tool"
              THEN /\ k.json = to_dict(call.a.body)
                   /\ DOMAIN k.headers = {"Content-Type"}
                   /\ k.headers["Content-Type"] = "application/json"
              ELSE k.json = NoJson /\ DOMAIN k.headers = {}
           /\ IF call.op = "list_runs" THEN k.params.tag = "obj" ELSE k.params = NoParams

\* The descriptor of GetTool for an id of unreserved characters.
C12_Witness ==
    /\ Described /\ call.op = "get_tool"
    /\ call.a.tool_id = <<"a", ".">>
    /\ call.kwargs.method = "get"
    /\ call.kwargs.url = <<"/", "t", "o", "o", "l", "s", "/", "a", ".">>

\* The non-blocking variant of a blocking one, and the reverse.
Twin(variant) ==
    CASE variant = "sync_detailed" -> "asyncio_detailed"
      [] variant = "asyncio_detailed" -> "sync_detailed"
      [] variant = "sync" -> "asyncio"
      [] variant = "asyncio" -> "sync"

\* What the variant v gives for the arguments, the client and the answer of
\* the transport of the call c.
OutcomeOf(c, v) ==
    IF IsRaise(get_kwargs(c.op, c.a)) THEN get_kwargs(c.op, c.a)
    ELSE IF c.raised # Nothing THEN c.raised
    ELSE returned(v, build_response(c.op, c.client, c.response))

\* C13: the blocking and the non-blocking variant of an operation send the
\* same request descriptor for the same arguments, and for the same answer of
\* the transport end alike: the same value returned or the same error raised.
C13_Parity ==
    (mode = "call") =>
        /\ (pc # "start" /\ call.kwargs # Nothing) =>
              call.kwargs = get_kwargs(call.op, call.a)
        /\ pc = "done" =>
              /\ call.result = OutcomeOf(call, call.variant)
              /\ call.result = OutcomeOf(call, Twin(call.variant))

\* An asyncio call of RunTool answered 202 returned the Run a sync call
\* returns.
C13_Witness ==
    /\ Answered /\ call.op = "run_tool" /\ call.variant = "asyncio"
    /\ call.response.status_code = 202
    /\ IsA(call.result, "Run")
    /\ call.result = OutcomeOf(call, "sync")

\* C14: a call makes exactly one request of the transport: none before the
\* descriptor is built, one from then on, whatever the status code of the
\* response, whether or not its body decodes and whether or not the
\* transport raises; and nothing is returned or raised by a call (with
\* arguments of the declared types) that made no request.
C14_OneRequest ==
    (mode = "call") =>
        /\ call.sent = (IF pc \in {"start", "built"} THEN 0 ELSE 1)
        /\ (call.response # Nothing \/ call.raised # Nothing) => call.sent = 1
        /\ call.result # Nothing => (pc = "done" /\ call.sent = 1)

\* A call answered 500 with a body that is no JSON ended having made one
\* request.
C14_Witness ==
    /\ Answered /\ call.response.status_code = 500 /\ call.response.content = NotJson
    /\ call.sent = 1

\* from_dict accepted the wire object received.
Accepted ==
    mode = "receive" /\ pc \in {"decoded", "reencoded"} /\ wire.tag = "obj" /\ ~IsRaise(dec)

\* C15: of a wire object from_dict accepts, the keys that are no declared
\* wire name of the class are the keys of additional_properties, with their
\* values, and they are the undeclared keys of to_dict(from_dict(w)), with
\* the same values: none dropped, renamed or added.
C15_UnknownFields ==
    Accepted =>
        LET undeclared == DOMAIN wire.val \ WireNames(cls)
        IN /\ DOMAIN dec.ap = undeclared
           /\ \A k \in undeclared : dec.ap[k] = wire.val[k]
           /\ pc = "reencoded" =>
                 /\ DOMAIN out.val \ WireNames(cls) = undeclared
                 /\ \A k \in undeclared : out.val[k] = wire.val[k]

\* A Run received with an undeclared key holding a number was written again
\* with it.
C15_Witness ==
    /\ Accepted /\ pc = "reencoded" /\ cls = "Run"
    /\ "x-extra" \in DOMAIN wire.val /\ wire.val["x-extra"] = N(5)
    /\ out.val["x-extra"] = N(5)

\* The wire object received is a well-formed one with the value of key k
\* replaced by null.
NullAt(k) ==
    /\ wire.tag = "obj" /\ k \in DOMAIN wire.val /\ wire.val[k] = None
    /\ \E w \in WellFormed(cls) : k \in DOMAIN w.val /\ wire.val = (k :> None) @@ w.val

\* C16 as stated: for every optional field of every entity, scalar or typed
\* as a nested entity, a timestamp, an enum or a list, a wire object holding
\* null under the field's key is decoded, to a value that is not the one of
\* the absent key, and written again with null under the key; and an absent
\* key is written again absent.
C16_TriState ==
    (mode = "receive" /\ pc \in {"decoded", "reencoded"} /\ wire.tag = "obj") =>
        \A fd \in OptionalFields(cls) :
            /\ NullAt(fd.wire) =>
                  /\ ~IsRaise(dec)
                  /\ dec.f[fd.py] = None
                  /\ pc = "reencoded" => (fd.wire \in DOMAIN out.val /\ out.val[fd.wire] = None)
            /\ (fd.wire \notin DOMAIN wire.val /\ ~IsRaise(dec)) =>
                  /\ IsUnset(dec.f[fd.py])
                  /\ pc = "reencoded" => fd.wire \notin DOMAIN out.val

\* The part of C16 the code keeps: an optional scalar field.
C16_TriState_Scalars ==
    (mode = "receive" /\ pc \in {"decoded", "reencoded"} /\ wire.tag = "obj") =>
        \A fd \in OptionalFields(cls) :
            (fd.kind = "scalar" /\ NullAt(fd.wire)) =>
                /\ ~IsRaise(dec)
                /\ dec.f[fd.py] = None
                /\ pc = "reencoded" => (fd.wire \in DOMAIN out.val /\ out.val[fd.wire] = None)

\* What call i gives for its own arguments, the client, and what the
\* transport answered its own request with.
OwnOutcome(i) ==
    LET c == call.calls[i]
        answer == call.served[i]
    IN IF answer \in TransportErrors THEN answer
       ELSE returned(c.variant, build_response(c.op, call.client, answer))

\* C17: of calls that share a client and interleave, each ends with what its
\* own arguments and the answer to its own request give; a step of one call
\* leaves the frames of the others as they were; and no step changes the
\* client.
C17_Independence ==
    [][mode = "concurrent" =>
        /\ call'.client = call.client
        /\ \E i \in CallIndex :
              \A j \in CallIndex \ {i} :
                  call'.calls[j] = call.calls[j] /\ call'.served[j] = call.served[j]
        /\ \A i \in CallIndex :
              pc'[i] = "done" => call'.calls[i].result = OwnOutcome(i)']_vars

\* Two calls of GetTool, one blocking and one not, ended differently on
\* different answers.
C17_Witness ==
    /\ mode = "concurrent"
    /\ \E i, j \in CallIndex :
          /\ pc[i] = "done" /\ pc[j] = "done"
          /\ call.calls[i].op = "get_tool" /\ call.calls[j].op = "get_tool"
          /\ call.calls[i].variant # call.calls[j].variant
          /\ call.served[j] \in TransportErrors
          /\ call.served[i] \notin TransportErrors /\ call.served[i].status_code = 404
          /\ IsA(call.calls[i].result.parsed, "Error")
          /\ call.calls[j].result = call.served[j]

\* C18: what the transport raises in place of a response (connectivity,
\* timeout) is what the call raises: the same exception, not UnexpectedStatus,
\* not None, and no response is mapped after it.
C18_TransportErrors ==
    (mode = "call" /\ call.raised # Nothing) =>
        /\ pc = "done"
        /\ call.raised \in TransportErrors
        /\ call.result = call.raised
        /\ call.response = Nothing /\ call.parsed = Nothing

\* A blocking GetTool call whose request timed out raised the timeout.
C18_Witness ==
    /\ mode = "call" /\ pc = "done" /\ call.op = "get_tool" /\ call.variant = "sync"
    /\ call.client.raise_on_unexpected_status
    /\ call.raised = Raise("ReadTimeout", "transport")
    /\ call.result = Raise("ReadTimeout", "transport")

TimestampFields(c) == {fd \in FieldSet(c) : fd.kind = "datetime"}
\* The wire object received is a well-formed one with another value under
\* key k.
OnlyAltered(k) ==
    /\ wire.tag = "obj" /\ k \in DOMAIN wire.val
    /\ \E w \in WellFormed(cls) : k \in DOMAIN w.val /\ wire.val = (k :> wire.val[k]) @@ w.val
Unparseable(v) == v.tag # "str" \/ v.val \in {"", "zzz", "2024-13-45T00:00:00", "yesterday"}

\* What C19 says of a timestamp field fd of the instance written and read
\* back: a string is written, and the same timestamp read from it.
WrittenAndReadBack(fd) ==
    /\ wire.val[fd.wire].tag = "str"
    /\ pc = "decoded" => (~IsRaise(dec) /\ dec.f[fd.py] = ent.f[fd.py])

\* What C19 says of a wire object received with v under the key of the
\* timestamp field fd.
Parsed(fd, v) ==
    /\ Unparseable(v) =>
          /\ IsRaise(dec)
          /\ OnlyAltered(fd.wire) => Fails(dec, "InvalidTimestamp")
    /\ (v = S("2024-06-30T12:34:56Z") /\ OnlyAltered(fd.wire)) =>
          (~IsRaise(dec) /\ dec.f[fd.py] = DateTime(2, 0, TRUE, 0))
    /\ (v = S("2024-01-01T00:00:00.123+0530") /\ OnlyAltered(fd.wire)) =>
          (~IsRaise(dec) /\ dec.f[fd.py] = DateTime(1, 123000, TRUE, 19800))
    /\ (v = S("2024-06-30T12:34:56-08") /\ OnlyAltered(fd.wire)) =>
          (~IsRaise(dec) /\ dec.f[fd.py] = DateTime(2, 0, TRUE, -28800))

\* C19 as stated: every timestamp field is written as a string and read back
\* from it, offset included, and a wire value that is no ISO-8601 timestamp
\* makes from_dict fail with InvalidTimestamp.  (Bags that hold a declared
\* wire name are left aside: they are no matter of timestamps.)
C19_Timestamps_AnyOffset ==
    /\ (mode = "roundtrip" /\ pc \in {"encoded", "decoded"} /\ ~BagCollides(ent)) =>
          \A fd \in TimestampFields(cls) :
              ~IsUnset(ent.f[fd.py]) => WrittenAndReadBack(fd)
    /\ (mode = "receive" /\ pc = "decoded" /\ wire.tag = "obj") =>
          \A fd \in TimestampFields(cls) :
              fd.wire \in DOMAIN wire.val => Parsed(fd, wire.val[fd.wire])

\* C19, amended: a timestamp field whose value is naive or has a UTC offset
\* of whole minutes is written as an ISO-8601 string and read back from it,
\* offset included; an ISO-8601 string with an offset (Z, +HH, +HHMM, +HH:MM)
\* is read as the timestamp it denotes; and a wire value that is no parseable
\* ISO-8601 string makes from_dict fail with InvalidTimestamp.
C19_Timestamps ==
    /\ (mode = "roundtrip" /\ pc \in {"encoded", "decoded"}
          /\ ~BagCollides(ent) /\ ~OddOffset(ent)) =>
          \A fd \in TimestampFields(cls) :
              ~IsUnset(ent.f[fd.py]) => WrittenAndReadBack(fd)
    /\ (mode = "receive" /\ pc = "decoded" /\ wire.tag = "obj") =>
          \A fd \in TimestampFields(cls) :
              fd.wire \in DOMAIN wire.val => Parsed(fd, wire.val[fd.wire])

\* A Tool created at an offset of +05:30 with microseconds was written and
\* read back.
C19_Witness ==
    /\ RoundTripped /\ cls = "Tool"
    /\ "created_at" \in DOMAIN args /\ args["created_at"] = DateTime(1, 123, TRUE, 19800)
    /\ wire.val["createdAt"] = S("2024-01-01T00:00:00.000123+05:30")
    /\ ~IsRaise(dec) /\ dec.f["created_at"] = DateTime(1, 123, TRUE, 19800)

\* What the Run docstring says of data and error: data only with status
\* success, error only with status failed or aborted.
RunConsistent(r) ==
    /\ ~IsUnset(r.f["data"]) => r.f["status"] = Member("RunStatus", "success")
    /\ ~IsUnset(r.f["error"]) =>
          r.f["status"] \in {Member("RunStatus", "failed"), Member("RunStatus", "aborted")}

\* C20 as stated: every Run the constructor gives, and every Run from_dict
\* gives for a wire object, has data only when its status is success and
\* error only when its status is failed or aborted.
C20_RunConsistent ==
    /\ (mode = "roundtrip" /\ cls = "Run") => RunConsistent(ent)
    /\ (Accepted /\ cls = "Run") => RunConsistent(dec)

\* The ToolStep fields with a constructor default other than UNSET, and the
\* default the documentation gives each.
ToolStepDefaults ==
    [modify |-> B(FALSE), failure_behavior |-> Member("ToolStepFailureBehavior", "fail")]

\* C21 as stated: a ToolStep built without modify or failure_behavior, by
\* the constructor or by from_dict from a wire object without the key
\* "modify" or "failureBehavior", has modify = False and failure_behavior =
\* fail.
C21_ToolStepDefaults ==
    \A a \in DOMAIN ToolStepDefaults :
        LET fd == FieldOfAttr("ToolStep", a)
        IN /\ (mode = "roundtrip" /\ cls = "ToolStep" /\ a \notin DOMAIN args)
                => ent.f[a] = ToolStepDefaults[a]
           /\ (Accepted /\ cls = "ToolStep" /\ fd.wire \notin DOMAIN wire.val)
                => dec.f[a] = ToolStepDefaults[a]

\* The half of C21 the code keeps: the constructor's defaults.
C21_ConstructorDefaults ==
    \A a \in DOMAIN ToolStepDefaults :
        (mode = "roundtrip" /\ cls = "ToolStep" /\ a \notin DOMAIN args)
            => ent.f[a] = ToolStepDefaults[a]

\* C22 as stated: once an instance is constructed or decoded, nothing that
\* can be done with it changes a declared field; item assignment and
\* deletion change the bag and leave every declared field as it was.
C22_Immutable == [][mode = "bag" => ent'.f = ent.f]_vars

\* The part of C22 the code keeps: the methods the classes define (item
\* assignment, deletion and reading, the membership test, additional_keys
\* and to_dict) leave every declared field as it was, and of them only item
\* assignment and deletion change the bag.
C22_MethodsFrame ==
    [][(mode = "bag" /\ call'.last.m # "setattr") =>
          /\ ent'.f = ent.f
          /\ call'.last.m \notin {"setitem", "delitem"} => ent'.ap = ent.ap]_vars

\* A step of _get_kwargs in terms of what it reads and writes.
PureStep ==
    mode \in {"request", "call"} =>
        /\ call'.a = call.a
        /\ call'.client = call.client
        /\ (pc = "start" /\ pc' = "built") => call'.kwargs = get_kwargs(call.op, call.a)
        /\ pc' = "rebuilt" =>
              out' = (IF call.kwargs # Nothing THEN call.kwargs ELSE call.result)

CollisionStep ==
    (mode = "roundtrip" /\ pc = "built" /\ pc' = "encoded") =>
        /\ ent'.ap = ent.ap
        /\ \A k \in DOMAIN ent.ap \cap WireNames(cls) :
              LET fd == FieldOfWire(cls, k)
              IN IF fd.req \/ ~IsUnset(ent.f[fd.py])
                 THEN wire'.val[k] = EncodeField(fd, ent.f[fd.py])
                 ELSE wire'.val[k] = ent.ap[k]

\* C24: where the bag holds a key that is the wire name of a declared
\* field, to_dict writes the declared field's value under the key when the
\* field is required or set, and the bag's value when the field is optional
\* and UNSET; and to_dict leaves the bag as it was.
C24_KeyCollision == [][CollisionStep]_vars

\* A ToolStep whose bag holds "id" (a required field) and "queryParams" (an
\* optional field left UNSET) was written with the declared id and the
\* bag's queryParams.
C24_Witness ==
    /\ Encoded /\ cls = "ToolStep"
    /\ {"id", "queryParams"} \subseteq DOMAIN ent.ap
    /\ IsUnset(ent.f["query_params"])
    /\ wire.val["id"] = ent.f["id"] /\ wire.val["id"] # ent.ap["id"]
    /\ wire.val["queryParams"] = ent.ap["queryParams"]

\* C25: the mapping passed to from_dict has the same keys and values
\* afterwards as when it was passed, whether from_dict returned or raised,
\* and also after items of the returned instance are assigned and deleted:
\* the instance's additional_properties is another dict than the one passed.
C25_InputUnchanged ==
    mode = "decode" =>
        /\ call.heap.src = wire
        /\ pc \in {"returned", "mutated"} => call.bag # "src"

\* A Run was decoded from an object with an undeclared key, and the key was
\* then deleted from the instance; and the object passed still has it.
C25_Witness ==
    /\ mode = "decode" /\ pc = "mutated" /\ cls = "Run"
    /\ "x-extra" \in DOMAIN wire.val
    /\ "x-extra" \notin DOMAIN dec.ap
    /\ "runId" \in DOMAIN call.heap.src.val

\* C26: of a wire object from_dict accepts, the keys of the instance's
\* additional_properties are the keys of the object that are no declared
\* wire name of the class, so no declared wire name is among them; and a
\* declared optional field is UNSET exactly when the object lacks its key.
C26_KeyPartition ==
    Accepted =>
        /\ DOMAIN dec.ap = DOMAIN wire.val \ WireNames(cls)
        /\ DOMAIN dec.ap \cap WireNames(cls) = {}
        /\ \A fd \in OptionalFields(cls) :
              IsUnset(dec.f[fd.py]) <=> fd.wire \notin DOMAIN wire.val

\* A Tool was decoded from an object with an undeclared key, with "name" and
\* without "createdAt".
C26_Witness ==
    /\ Accepted /\ cls = "Tool"
    /\ DOMAIN dec.ap = {"x-extra"}
    /\ "name" \in DOMAIN wire.val /\ ~IsUnset(dec.f["name"])
    /\ "createdAt" \notin DOMAIN wire.val /\ IsUnset(dec.f["created_at"])

ListFields(c) == {fd \in FieldSet(c) : fd.kind = "list"}

\* C27: a list field (Tool.steps, Run.step_results, ListRunsResponse200.data)
\* that is set is written as a wire list of the same length whose i-th
\* element is to_dict of the i-th instance, the empty list as the empty wire
\* list; and a wire list is read as a list of the same length whose i-th
\* element is from_dict of the i-th wire element, the empty wire list as the
\* empty list, not as UNSET.
C27_Sequences ==
    /\ Encoded =>
          \A fd \in ListFields(cls) :
              LET v == ent.f[fd.py]
              IN ~IsUnset(v) =>
                    /\ fd.wire \in DOMAIN wire.val
                    /\ wire.val[fd.wire].tag = "list"
                    /\ Len(wire.val[fd.wire].val) = Len(v.val)
                    /\ \A i \in DOMAIN v.val : wire.val[fd.wire].val[i] = to_dict(v.val[i])
    /\ Accepted =>
          \A fd \in ListFields(cls) :
              (fd.wire \in DOMAIN wire.val /\ wire.val[fd.wire].tag = "list") =>
                  LET w == wire.val[fd.wire].val
                      v == dec.f[fd.py]
                  IN /\ v.tag = "list"
                     /\ Len(v.val) = Len(w)
                     /\ \A i \in DOMAIN w : v.val[i] = from_dict(fd.cls, w[i])

\* A page of two different runs was decoded, in their order.
C27_Witness ==
    /\ Accepted /\ cls = "ListRunsResponse200"
    /\ "data" \in DOMAIN wire.val /\ Len(wire.val["data"].val) = 2
    /\ wire.val["data"].val[1] # wire.val["data"].val[2]
    /\ dec.f["data"].val[1] = Populated("Run", FALSE)
    /\ dec.f["data"].val[2] # dec.f["data"].val[1]

\* C28: when the response has a status code the operation declares and its
\* body does not decode to the type declared for the code (a required key
\* missing or an enum value that is no literal, at the top or in a run of a
\* page or a step of a tool), the call raises what the decoding raised and
\* returns nothing, whether or not the client raises on unexpected statuses.
C28_DecodeErrors ==
    (Answered /\ call.response.status_code \in DOMAIN Declared(call.op)) =>
        LET d == decoded(Declared(call.op)[call.response.status_code], call.response)
        IN IsRaise(d) => call.result = d

\* A call of list_runs on a client that does not raise on unexpected
\* statuses was answered 200 with a page whose second run has a status that
\* is no literal, and raised the enum's ValueError.
C28_Witness ==
    /\ Answered /\ call.op = "list_runs"
    /\ ~call.client.raise_on_unexpected_status
    /\ call.response.status_code = 200
    /\ call.response.content \in BrokenBodies
    /\ Fails(call.result, "InvalidEnumValue")

\* The last assignment or deletion of key k in a log, 0 if none.
LastOn(log, k) ==
    LET is == {i \in DOMAIN log : log[i].k = k}
    IN IF is = {} THEN 0 ELSE CHOOSE i \in is : \A j \in is : j <= i
\* Whether key k was assigned (at the start or since) and not deleted after.
Live(log, k) ==
    IF LastOn(log, k) = 0 THEN k \in DOMAIN call.initial
    ELSE log[LastOn(log, k)].m = "setitem"
\* The value last assigned to a live key.
LastAssigned(log, k) ==
    IF LastOn(log, k) = 0 THEN call.initial[k] ELSE log[LastOn(log, k)].v
LiveKeys(log) == {k \in ItemKeys(cls) \cup DOMAIN call.initial : Live(log, k)}
ButLast(log) == SubSeq(log, 1, Len(log) - 1)

\* C29: after any item assignments and deletions, the bag holds exactly the
\* keys assigned and not deleted since, each with the value last assigned;
\* additional_keys gives those keys, entity[k] the value last assigned to k,
\* "k in entity" whether k is one of them; reading or deleting a key that is
\* none of them raises KeyError and leaves the bag as it was; and to_dict
\* writes the bag's current keys and values.
C29_BagIsMap ==
    mode = "bag" =>
        LET live == LiveKeys(call.log)
            last == call.last
        IN /\ DOMAIN ent.ap = live
           /\ \A k \in live : ent.ap[k] = LastAssigned(call.log, k)
           /\ last # Nothing =>
                 /\ last.m = "additional_keys" => out = KeySet(live)
                 /\ last.m = "contains" => out = B(last.k \in live)
                 /\ last.m = "getitem" =>
                       IF last.k \in live THEN out = LastAssigned(call.log, last.k)
                       ELSE IsRaise(out) /\ out.exc = "KeyError"
                 /\ last.m = "delitem" =>
                       IF Live(ButLast(call.log), last.k) THEN out = None
                       ELSE IsRaise(out) /\ out.exc = "KeyError"
                 /\ last.m = "to_dict" =>
                       /\ DOMAIN out.val \ WireNames(cls) = live \ WireNames(cls)
                       /\ \A k \in live :
                             /\ k \in DOMAIN out.val
                             /\ (k \notin WireNames(cls) \/ IsUnset(ent.f[FieldOfWire(cls, k).py]))
                                   => out.val[k] = LastAssigned(call.log, k)

\* A key was assigned twice, with different values, a key the bag does not
\* hold was deleted (which raised), and the first key was then read.
C29_Witness ==
    /\ mode = "bag" /\ cls = "Pagination" /\ call.initial = EmptyMap
    /\ call.log = <<Op("setitem", "x-extra", S("bag")), Op("setitem", "x-extra", N(2)),
                    Op("delitem", "pageSize", Nothing)>>
    /\ call.last = Op("getitem", "x-extra", Nothing)
    /\ out = N(2)

\* The detailed variant that sync, and that asyncio, is written over.
Detailed(variant) ==
    IF variant \in {"sync", "sync_detailed"} THEN "sync_detailed" ELSE "asyncio_detailed"

\* C30: sync returns the parsed field of what sync_detailed returns for the
\* same arguments and the same answer of the transport, asyncio that of
\* asyncio_detailed (and raises what the detailed variant raises); and the
\* Response a detailed variant returns has the status code, the content and
\* the headers of the transport's response, and as parsed what
\* _parse_response gave for it.
C30_DetailedAndPlain ==
    (mode = "call" /\ pc = "done") =>
        LET detailed == OutcomeOf(call, Detailed(call.variant))
        IN /\ call.variant \in {"sync", "asyncio"} =>
                 call.result = (IF IsRaise(detailed) THEN detailed ELSE detailed.parsed)
           /\ (call.variant \in {"sync_detailed", "asyncio_detailed"} /\ ~IsRaise(call.result)) =>
                 /\ call.result.tag = "response"
                 /\ call.result.status_code = call.response.status_code
                 /\ call.result.content = call.response.content
                 /\ call.result.headers = call.response.headers
                 /\ call.result.parsed = call.parsed

\* An asyncio_detailed call of get_tool answered 404 returned a Response
\* with the code, the body and the headers of the answer and the Error
\* decoded from the body.
C30_Witness ==
    /\ Answered /\ call.op = "get_tool" /\ call.variant = "asyncio_detailed"
    /\ call.response.status_code = 404 /\ call.response.content = ErrorBody
    /\ call.result.tag = "response"
    /\ call.result.content = ErrorBody
    /\ "content-type" \in DOMAIN call.result.headers
    /\ IsA(call.result.parsed, "Error")

====
